---- MODULE Spec2Model ----
(***************************************************************************)
(* The transactional view (DIO) of the ATE chain-of-trust store.           *)
(*                                                                         *)
(* lib/src/dio/mod.rs is modelled operation by operation: DioState and its *)
(* dirty/lock/unlock/is_locked, Dio::store_ext, Dio::load, Dio::commit,    *)
(* Drop for Dio, Chain::dio_ext and Chain::dio_for_dao.  The Dao handle    *)
(* (dio/dao.rs) and the chain's feed/index/replay are not part of the      *)
(* sources at hand; they follow the written specification and the          *)
(* behaviour test_dio demands.                                             *)
(*                                                                         *)
(* Row payloads are data independent (no operation compares them), so each *)
(* write stores a fresh number: a value identifies the write it came from. *)
(***************************************************************************)
EXTENDS Integers, Sequences, FiniteSets, TLC

NumKeys == 2
MaxWrites == 3
SoloWrites == 2
NumStates == 2
NumDios == 2
MaxDaos == 2
MaxLog == 3
SoloLog == 2
MaxList == 2

\* how many read keys there are
NumReadKeys == 2

\* the largest tolerance and the largest offset, in milliseconds; how far the
\* clock runs; the round trips of the queries
MaxTolerance == 2
MaxOffset == 4
MaxTicks == 2
PingStep == 40
MaxPings == 3

\* the background thread queries once n has passed this many sleeps
PollEvery == 200

\* how far above best_ping a round trip may lie to be taken, in milliseconds
PingSlack == 50

Keys == 1..NumKeys
StateIds == 1..NumStates
DioIds == 1..NumDios
DaoIds == 1..MaxDaos

VARIABLES
    log,        \* the redo log: the sequence of events appended so far
    primary,    \* the chain's primary index: key -> offset of its leaf, 0 if none
    secondary,  \* the chain's secondary index: parent -> keys of its collection
    dstate,     \* the arena of DioState values, one per state slot
    dio,        \* the Dio objects: the state slot each holds (0: not alive) and
                \* whether Chain::dio_ext made it (own) or Chain::dio_for_dao
    dao,        \* the Dao handles
    nextVal,    \* the payload the next write stores
    deletes,    \* per DioState and key: how often Dao::delete ran (up to 2)
    delorder,   \* per DioState: its deleted keys in the order they were deleted
    tasks,      \* the spawned tasks that have yet to feed their transaction
    last,       \* the last operation and what it returned
    enforcer,   \* the TimestampEnforcer and what it shares with its thread
    bt,         \* the background thread of the enforcer
    now,        \* the system clock, in milliseconds since the epoch
    seen,       \* what the enforcer was fed and what its queries reported
    unlocks,    \* the spawned tasks that have yet to unlock keys through the pipe
    conn,       \* the connect loop of a mesh client
    svc,        \* a request to the authentication service and its outcome
    proc        \* a Process of the terminal, its clones and their waiters

dioVars ==
    <<log, primary, secondary, dstate, dio, dao, nextVal, deletes, delorder, tasks, unlocks>>

timeVars == <<enforcer, bt, now, seen>>

\* the variables of the other components
restVars == <<conn, svc, proc>>

\* no client connects, no request is served and no process runs
\* the connect loop of mesh_connect_prepare: where it stands (pc), the caller's
\* fail_fast and timeout, the delay exp_backoff and the time spent, in
\* milliseconds, and for the record the attempts made, the sleeps taken, the
\* answer of the last TcpStream::connect and the result returned
NoConn ==
    [pc |-> "none", fail_fast |-> FALSE, timeout |-> 0, exp_backoff |-> 0,
     elapsed |-> 0, tries |-> 0, sleeps |-> 0, err |-> "none", res |-> "none"]
\* the AuthService: the read keys of its master session, the User row of the
\* chain of each email, and for the record the last request, the time it came
\* at, whether the chain opened, and the response
NoSvc == [op |-> "none"]
\* no Process was made
NoProc == [pc |-> "none"]
NoRest == conn = NoConn /\ svc = NoSvc /\ proc = NoProc

\* what no operation of a Dio touches
farVars == <<timeVars, restVars>>

vars == <<dioVars, last, farVars>>

-----------------------------------------------------------------------------
(* Rows and events *)

\* a row: its key, its payload, its parent and its read authorization, the
\* set of read-key hashes allowed to read it (empty: no restriction)
NoRow == [key |-> 0, data |-> 0, tree |-> 0, auth |-> {}]

\* Dao::new under MetaAuthorization::default()
Row(k, d, t) == [key |-> k, data |-> d, tree |-> t, auth |-> {}]

\* the read keys, each named by its hash
ReadKeys == 1..NumReadKeys

\* a session: the read keys it holds
Sessions == SUBSET ReadKeys

\* the session of test_dio, which holds every read key of the test
TestSession == ReadKeys

\* a Dio: its DioState, whether it made it, its scope and its session
NoDio == [st |-> 0, own |-> FALSE, scope |-> "Local", session |-> {}, pend |-> 0]

\* what encryption adds to a payload
CipherShift == MaxWrites + NumKeys + 1

\* a session satisfies a read authorization iff it holds any matching key
CanRead(session, auth) == auth = {} \/ session \cap auth # {}

\* the transformers on the way to the log: a restricted payload is encrypted
data_as_underlay(d, auth) == IF auth = {} THEN d ELSE d + CipherShift

\* the transformers on the way back: a restricted payload is decrypted
data_as_overlay(d, auth) == IF auth = {} THEN d ELSE d - CipherShift

\* a Dao: its DioState, its row and its dirty flag; besides, for the record,
\* fresh: it came from store and was not flushed yet; held: it locked its key
\* and no Dao of that key was flushed since
NoDao == [live |-> FALSE, st |-> 0, row |-> NoRow, dirty |-> FALSE,
          fresh |-> FALSE, held |-> FALSE]

\* Metadata::for_data(key) plus the Tree entry and the payload of the row
DataEvent(row) ==
    [kind |-> "Data", key |-> row.key, data |-> data_as_underlay(row.data, row.auth),
     tree |-> row.tree, auth |-> row.auth]

\* Metadata::default() plus add_tombstone(key); no payload
TombstoneEvent(k, row) ==
    [kind |-> "Tombstone", key |-> k, data |-> 0, tree |-> row.tree, auth |-> {}]

\* Row::from_event
Row_from_event(evt) ==
    [key |-> evt.key, data |-> data_as_overlay(evt.data, evt.auth), tree |-> evt.tree,
     auth |-> evt.auth]

-----------------------------------------------------------------------------
(* DioState *)

DioState_new ==
    [ store                 |-> << >>,
      cache_store_primary   |-> [k \in Keys |-> NoRow],
      cache_store_secondary |-> [p \in Keys |-> << >>],
      cache_load            |-> [k \in Keys |-> NoRow],
      locked                |-> {},
      deleted               |-> [k \in Keys |-> NoRow],
      pipe_unlock           |-> {} ]

\* DioState::dirty that leaves the row out of cache_store_primary
DioState_dirty_unindexed(ds, key, tree, row) ==
    [ ds EXCEPT
        !.store = Append(@, row),
        !.cache_store_secondary =
            IF tree # 0 THEN [@ EXCEPT ![tree] = Append(@, key)] ELSE @,
        !.cache_load[key] = NoRow ]

DioState_dirty(ds, key, tree, row) ==
    [ ds EXCEPT
        !.store = Append(@, row),
        !.cache_store_primary[key] = row,
        !.cache_store_secondary =
            IF tree # 0 THEN [@ EXCEPT ![tree] = Append(@, key)] ELSE @,
        !.cache_load[key] = NoRow ]

\* DioState::lock that does not record the key
DioState_lock_lost(ds, key) == ds

DioState_lock(ds, key) == [ds EXCEPT !.locked = @ \cup {key}]

\* DioState::unlock that does not remove the key
DioState_unlock_kept(ds, key) == [ds EXCEPT !.locked = @]

DioState_unlock(ds, key) == [ds EXCEPT !.locked = @ \ {key}]

DioState_is_locked(ds, key) == key \in ds.locked

-----------------------------------------------------------------------------
(* The chain: index, feed and replay *)

SeqHas(s, x) == \E n \in 1..Len(s) : s[n] = x

RECURSIVE SeqWithout(_, _)
SeqWithout(s, x) ==
    IF s = << >> THEN << >>
    ELSE IF Head(s) = x THEN SeqWithout(Tail(s), x)
    ELSE << Head(s) >> \o SeqWithout(Tail(s), x)

NoIndex == [primary |-> [k \in Keys |-> 0], secondary |-> [p \in Keys |-> << >>]]

\* the indexer's step for one event appended at offset off: a Data event sets
\* the key's leaf and enters the key in its parent's collection, a Tombstone
\* retires the key from both indexes
Index_apply(idx, evt, off) ==
    CASE evt.kind = "Data" ->
            [ primary   |-> [idx.primary EXCEPT ![evt.key] = off],
              secondary |->
                IF evt.tree # 0 /\ ~SeqHas(idx.secondary[evt.tree], evt.key)
                THEN [idx.secondary EXCEPT ![evt.tree] = Append(@, evt.key)]
                ELSE idx.secondary ]
      [] evt.kind = "Tombstone" ->
            [ primary   |-> [idx.primary EXCEPT ![evt.key] = 0],
              secondary |->
                IF evt.tree # 0
                THEN [idx.secondary EXCEPT ![evt.tree] = SeqWithout(@, evt.key)]
                ELSE idx.secondary ]
      [] OTHER -> idx

RECURSIVE Index_feed(_, _, _)
Index_feed(idx, evts, base) ==
    IF evts = << >> THEN idx
    ELSE Index_feed(Index_apply(idx, Head(evts), base + 1), Tail(evts), base + 1)

\* a full replay of the log from its start into fresh indexes
Chain_replay(lg) == Index_feed(NoIndex, lg, 0)

\* ChainMultiUser::lookup_primary
lookup_primary(k) == primary[k]

\* ChainMultiUser::lookup_secondary_raw; the empty list stands for no entry
lookup_secondary_raw(p) == secondary[p]

-----------------------------------------------------------------------------
(* Dio::load *)

LoadError(what) == [out |-> what, row |-> NoRow, src |-> "none"]

LoadOk(row, src) == [out |-> "Ok", row |-> row, src |-> src]

\* Dio::load that looks into staging before it looks at the lock
Dio_load_staged_first(ds, k) ==
    IF ds.cache_store_primary[k] # NoRow
        THEN LoadOk(ds.cache_store_primary[k], "staged")
    ELSE IF DioState_is_locked(ds, k) THEN LoadError("ObjectStillLocked")
    ELSE IF ds.cache_load[k] # NoRow
        THEN LoadOk(ds.cache_load[k], "cache")
    ELSE IF ds.deleted[k] # NoRow THEN LoadError("AlreadyDeleted")
    ELSE IF lookup_primary(k) = 0 THEN LoadError("NotFound")
    ELSE LoadOk(Row_from_event(log[lookup_primary(k)]), "chain")

\* Dio::load that does not consult deleted
Dio_load_past_deleted(ds, k) ==
    IF DioState_is_locked(ds, k) THEN LoadError("ObjectStillLocked")
    ELSE IF ds.cache_store_primary[k] # NoRow
        THEN LoadOk(ds.cache_store_primary[k], "staged")
    ELSE IF ds.cache_load[k] # NoRow
        THEN LoadOk(ds.cache_load[k], "cache")
    ELSE IF lookup_primary(k) = 0 THEN LoadError("NotFound")
    ELSE LoadOk(Row_from_event(log[lookup_primary(k)]), "chain")

Dio_load(ds, k) ==
    IF DioState_is_locked(ds, k) THEN LoadError("ObjectStillLocked")
    ELSE IF ds.cache_store_primary[k] # NoRow
        THEN LoadOk(ds.cache_store_primary[k], "staged")
    ELSE IF ds.cache_load[k] # NoRow
        THEN LoadOk(ds.cache_load[k], "cache")
    ELSE IF ds.deleted[k] # NoRow THEN LoadError("AlreadyDeleted")
    ELSE IF lookup_primary(k) = 0 THEN LoadError("NotFound")
    ELSE LoadOk(Row_from_event(log[lookup_primary(k)]), "chain")

\* Dio::load through the session of the Dio: a row of the chain that the session
\* cannot read stops load_from_event before Row::from_event and before the cache
Dio_load_session(ds, k, session) ==
    LET r == Dio_load(ds, k)
    IN IF r.src = "chain" /\ ~CanRead(session, r.row.auth)
       THEN LoadError("MissingReadKey") ELSE r

\* Dio::load_from_event: a row that came from the chain enters the load cache
Dio_load_from_event(ds, r) ==
    IF r.src = "chain" THEN [ds EXCEPT !.cache_load[r.row.key] = r.row] ELSE ds

-----------------------------------------------------------------------------
(* Dio::children *)

ChildrenStart(ds) ==
    [err |-> 0, ret |-> << >>, already |-> {}, to_load |-> << >>, cache |-> ds.cache_load]

\* a row pushed twice to the return list
ChildrenPush_twice(acc, row) ==
    [acc EXCEPT !.ret = Append(Append(@, row), row), !.already = @ \cup {row.key}]

ChildrenPush(acc, row) ==
    [acc EXCEPT !.ret = Append(@, row), !.already = @ \cup {row.key}]

\* the first loop: every key the chain's secondary index lists is answered
\* from the Dio's own state or queued for loading
RECURSIVE Children_scan(_, _, _)
Children_scan(ds, keys, acc) ==
    IF keys = << >> \/ acc.err # 0 THEN acc
    ELSE LET key == Head(keys)
         IN Children_scan(ds, Tail(keys),
                IF DioState_is_locked(ds, key) THEN [acc EXCEPT !.err = key]
                ELSE IF ds.cache_store_primary[key] # NoRow
                    THEN ChildrenPush(acc, ds.cache_store_primary[key])
                ELSE IF ds.cache_load[key] # NoRow
                    THEN ChildrenPush(acc, ds.cache_load[key])
                ELSE IF ds.deleted[key] # NoRow THEN acc
                ELSE IF lookup_primary(key) = 0 THEN acc
                ELSE [acc EXCEPT !.to_load = Append(@, lookup_primary(key))])

\* the second loop: the queued leaves are loaded; a load cache hit is pushed
\* without leaving the iteration
RECURSIVE Children_load(_, _, _)
Children_load(ds, leaves, acc) ==
    IF leaves = << >> \/ acc.err # 0 THEN acc
    ELSE LET evt == log[Head(leaves)]
             key == evt.key
             hit == IF acc.cache[key] # NoRow THEN ChildrenPush(acc, acc.cache[key])
                    ELSE acc
         IN Children_load(ds, Tail(leaves),
                IF DioState_is_locked(ds, key) THEN [acc EXCEPT !.err = key]
                ELSE IF ds.cache_store_primary[key] # NoRow
                    THEN ChildrenPush(acc, ds.cache_store_primary[key])
                ELSE IF ds.deleted[key] # NoRow THEN hit
                ELSE [ChildrenPush(hit, Row_from_event(evt))
                        EXCEPT !.cache[key] = Row_from_event(evt)])

\* the third loop: the rows staged in this Dio under the collection
RECURSIVE Children_local(_, _, _)
Children_local(ds, vec, acc) ==
    IF vec = << >> \/ acc.err # 0 THEN acc
    ELSE LET a == Head(vec)
         IN Children_local(ds, Tail(vec),
                IF a \in acc.already THEN acc
                ELSE IF ds.deleted[a] # NoRow THEN acc
                ELSE IF DioState_is_locked(ds, a) THEN [acc EXCEPT !.err = a]
                ELSE IF ds.cache_store_primary[a] # NoRow
                    THEN ChildrenPush(acc, ds.cache_store_primary[a])
                ELSE acc)

\* Dio::children that takes no key for deleted
Dio_children_past_deleted(ds, parent) ==
    IF lookup_secondary_raw(parent) = << >>
    THEN ChildrenStart(ds)
    ELSE LET d0 == [ds EXCEPT !.deleted = [k \in Keys |-> NoRow]]
             a1 == Children_scan(d0, lookup_secondary_raw(parent), ChildrenStart(d0))
             a2 == Children_load(d0, a1.to_load, a1)
         IN Children_local(d0, d0.cache_store_secondary[parent], a2)

\* the result of Dio::children: the rows, or the key found locked, and the
\* load cache it leaves
Dio_children(ds, parent) ==
    IF lookup_secondary_raw(parent) = << >>
    THEN ChildrenStart(ds)
    ELSE LET a1 == Children_scan(ds, lookup_secondary_raw(parent), ChildrenStart(ds))
             a2 == Children_load(ds, a1.to_load, a1)
         IN Children_local(ds, ds.cache_store_secondary[parent], a2)

-----------------------------------------------------------------------------
(* Dao: the handle to one row (follows the written specification) *)

\* Dao::fork: the first mutation sets the dirty flag and locks the key
Dao_fork(ds, h) == IF h.dirty THEN ds ELSE DioState_lock(ds, h.row.key)

\* Dao::commit and Drop for Dao: a dirty row is flushed into staging and its
\* lock released
Dao_flush(ds, h) ==
    IF h.dirty
    THEN DioState_dirty(DioState_unlock(ds, h.row.key), h.row.key, h.row.tree, h.row)
    ELSE ds

RECURSIVE SeqWithoutKey(_, _)
SeqWithoutKey(s, k) ==
    IF s = << >> THEN << >>
    ELSE IF Head(s).key = k THEN SeqWithoutKey(Tail(s), k)
    ELSE << Head(s) >> \o SeqWithoutKey(Tail(s), k)

\* Dao::delete: the row moves to deleted; its staged and cached counterparts go
\* (of a deleted row only the key and the tree are read again, by Dio::commit);
\* the Dao is consumed, and with it the lock a dirty Dao holds
Dao_delete(ds, h) ==
    [ (IF h.dirty THEN DioState_unlock(ds, h.row.key) ELSE ds) EXCEPT
        !.store = SeqWithoutKey(@, h.row.key),
        !.cache_store_primary[h.row.key] = NoRow,
        !.cache_store_secondary =
            IF h.row.tree # 0
            THEN [@ EXCEPT ![h.row.tree] = SeqWithout(@, h.row.key)] ELSE @,
        !.cache_load[h.row.key] = NoRow,
        !.deleted[h.row.key] = Row(h.row.key, 0, h.row.tree) ]

-----------------------------------------------------------------------------
(* Dio::commit *)

\* the rows of store turned into events, all but the first forgotten
DataEvents_first(store) ==
    IF store = << >> THEN << >> ELSE << DataEvent(Head(store)) >>

\* the rows of store sent last to first
RECURSIVE DataEvents_reversed(_)
DataEvents_reversed(store) ==
    IF store = << >> THEN << >>
    ELSE DataEvents_reversed(Tail(store)) \o << DataEvent(Head(store)) >>

RECURSIVE DataEvents(_)
DataEvents(store) ==
    IF store = << >> THEN << >>
    ELSE << DataEvent(Head(store)) >> \o DataEvents(Tail(store))

\* a tombstone pushed twice per deleted key
RECURSIVE TombstoneEvents_twice(_, _)
TombstoneEvents_twice(deleted, order) ==
    IF order = << >> THEN << >>
    ELSE << TombstoneEvent(Head(order), deleted[Head(order)]),
            TombstoneEvent(Head(order), deleted[Head(order)]) >>
         \o TombstoneEvents_twice(deleted, Tail(order))

RECURSIVE TombstoneEvents(_, _)
TombstoneEvents(deleted, order) ==
    IF order = << >> THEN << >>
    ELSE << TombstoneEvent(Head(order), deleted[Head(order)]) >>
         \o TombstoneEvents(deleted, Tail(order))

DeletedKeys(ds) == {k \in Keys : ds.deleted[k] # NoRow}

\* the orders in which iterating the deleted hash map can yield its keys
IterationOrders(S) ==
    {o \in [1..Cardinality(S) -> S] : \A i, j \in 1..Cardinality(S) : i # j => o[i] # o[j]}

\* the events of one commit with the tombstones sent ahead of the writes
Dio_commit_events_deletes_first(ds, order) ==
    TombstoneEvents(ds.deleted, order) \o DataEvents(ds.store)

\* the events of one commit: the rows of store, then a tombstone per deleted key
Dio_commit_events(ds, order) ==
    DataEvents(ds.store) \o TombstoneEvents(ds.deleted, order)

\* Dio::commit that goes on whatever is staged
Dio_commit_skips_never(ds) == FALSE

\* the early return of Dio::commit: nothing is staged and nothing deleted
Dio_commit_skips(ds) == ds.store = << >> /\ DeletedKeys(ds) = {}

\* the scopes a Dio is opened with
Scopes == {"None", "Local", "Full"}

\* what can fail while the events are built: the lint or transformation of
\* one event, or the serialization and lint of them all
Faults == {"none", "lint_event", "lint_many"}

\* what comes back on the result channel: success, an error, or nothing
\* before the channel is closed
Results == {"Ok", "Err", "Closed"}

\* builds with and without debug assertions
Builds == {"debug", "release"}

\* the event that carries the metadata of the lint across events
BatchEvent == [kind |-> "Batch", key |-> 0, data |-> 0, tree |-> 0, auth |-> {}]

\* the events of one commit with the lint metadata sent behind them
Dio_commit_batch_trailing(ds, order, lint) ==
    IF lint THEN Dio_commit_events(ds, order) \o << BatchEvent >>
    ELSE Dio_commit_events(ds, order)

\* the events of one commit, led by the metadata of the lint across events
\* when it returned any
Dio_commit_batch(ds, order, lint) ==
    IF lint THEN << BatchEvent >> \o Dio_commit_events(ds, order)
    ELSE Dio_commit_events(ds, order)

\* the transaction of a commit; it has a result channel unless the scope is None
Transaction(scope, evts) ==
    [scope |-> scope, events |-> evts, result |-> scope # "None"]

NoTrans == [scope |-> "None", events |-> << >>, result |-> FALSE]

\* a commit that waits for no result whatever the scope
Dio_commit_wait_never(scope, res) == "Queued"

\* the end of a commit whose transaction went to a task: scope None does not
\* wait, any other scope waits for the result
Dio_commit_wait(scope, res) ==
    IF scope = "None" THEN "Queued"
    ELSE IF res = "Ok" THEN "Fed"
    ELSE IF res = "Err" THEN "Rejected" ELSE "Closed"

Waited == {"Fed", "Rejected", "Closed"}

CommitErrors == {"Failed", "Rejected", "Closed"}

\* a pipe that appends every event and indexes only the first of them
Pipe_feed_first_indexed(lg, idx, evts, res) ==
    IF res = "Ok"
    THEN [log |-> lg \o evts, idx |-> Index_feed(idx, << Head(evts) >>, Len(lg))]
    ELSE [log |-> lg, idx |-> idx]

\* the pipe takes a transaction: its events reach the log and the indexes
\* when the chain accepts it, none of them when it does not
Pipe_feed(lg, idx, evts, res) ==
    IF res = "Ok"
    THEN [log |-> lg \o evts, idx |-> Index_feed(idx, evts, Len(lg))]
    ELSE [log |-> lg, idx |-> idx]

SeqWithoutAt(q, n) == SubSeq(q, 1, n - 1) \o SubSeq(q, n + 1, Len(q))

\* the state a commit leaves: store is drained
Dio_commit_state(ds) == [ds EXCEPT !.store = << >>]

-----------------------------------------------------------------------------
(* Housekeeping *)

Referenced(dioF, daoF) ==
    ({dioF[i].st : i \in DioIds} \ {0})
    \cup {daoF[h].st : h \in {x \in DaoIds : daoF[x].live}}

\* a DioState nobody holds any more is freed
Reclaim(dsF, dioF, daoF) ==
    [s \in StateIds |-> IF s \in Referenced(dioF, daoF) THEN dsF[s] ELSE DioState_new]

FreeDaos == {h \in DaoIds : ~dao[h].live}
FreeDios == {i \in DioIds : dio[i].st = 0}
FreeStates == StateIds \ Referenced(dio, dao)
LiveDios == DioIds \ FreeDios
LiveDaos == DaoIds \ FreeDaos

Lowest(S) == CHOOSE x \in S : \A y \in S : x <= y

\* the record of an operation: the DioState and key it ran on, its outcome,
\* the payload returned or written (events fed, for a commit), the rows
\* children returned, the keys a commit found deleted, and of a commit the
\* failure, the lint and the result it met and the transaction it made
Op(op, s, k, out, d) ==
    [op |-> op, st |-> s, key |-> k, out |-> out, data |-> d, ret |-> << >>, keys |-> {},
     fault |-> "none", lint |-> FALSE, res |-> "Ok", trans |-> NoTrans,
     session |-> {}, src |-> "none", meta |-> [stamps |-> << >>, allow_write |-> {}],
     best |-> 0]

\* a flush of a dirty Dao of key k on state s releases the key for every Dao
Released(daoF, s, k) ==
    [h \in DaoIds |->
        IF daoF[h].live /\ daoF[h].st = s /\ daoF[h].row.key = k
        THEN [daoF[h] EXCEPT !.held = FALSE] ELSE daoF[h]]

NewDao(s, row) == [NoDao EXCEPT !.live = TRUE, !.st = s, !.row = row]

NoDeletes == [k \in Keys |-> 0]

ReclaimDeletes(dioF, daoF) ==
    [s \in StateIds |-> IF s \in Referenced(dioF, daoF) THEN deletes[s] ELSE NoDeletes]

ReclaimOrder(ord, dioF, daoF) ==
    [s \in StateIds |-> IF s \in Referenced(dioF, daoF) THEN ord[s] ELSE << >>]

-----------------------------------------------------------------------------
(* TimestampEnforcer *)

\* the tolerances an enforcer is made with, in milliseconds
Tolerances == 1..MaxTolerance

\* the offsets an NTP query reports, in milliseconds
Offsets == (0 - MaxOffset)..MaxOffset

\* the round trips an NTP query reports, in milliseconds
Pings == {k * PingStep : k \in 0..MaxPings}

\* the system clock when the enforcer is made: far enough from the epoch for
\* every offset and every tolerance
Epoch == MaxOffset + 2 * MaxTolerance

\* the timestamps an event can carry, in milliseconds since the epoch
Timestamps == 0..(Epoch + MaxTicks + MaxOffset + MaxTolerance + 1)

\* NtpResult: offset() and roundtrip(); ok tells a result from a failed query
NtpResult(ok, offset, roundtrip) == [ok |-> ok, offset |-> offset, roundtrip |-> roundtrip]

NoEnforcer ==
    [live |-> FALSE, cursor |-> 0, tolerance |-> 0,
     ntp_result |-> NtpResult(FALSE, 0, 0), bt_exit |-> FALSE]

\* the locals of the background thread and where it stands: at the test of
\* its loop, in the body, or past the loop
NoThread == [pc |-> "none", n |-> 0, best_ping |-> 0]

\* for the record: the largest timestamp fed and the smallest round trip any
\* query has reported
NoSeen == [fed |-> 0, ping |-> 0]

\* no enforcer was made
NoTime == enforcer = NoEnforcer /\ bt = NoThread /\ now = 0 /\ seen = NoSeen

\* the metadata of an event, as far as the enforcer reads it: its Timestamp
\* entries in order and the write hashes of its authorization
Metas ==
    [stamps : {<< >>} \cup {<<t>> : t \in Timestamps}, allow_write : SUBSET {Lowest(ReadKeys)}]

\* Metadata::needs_signature: some authorization restriction is present
needs_signature(meta) == meta.allow_write # {}

\* TimestampEnforcer::new that starts the cursor at the epoch
TimestampEnforcer_new_epoch(tolerance_ms, r) ==
    [live |-> TRUE, cursor |-> 0, tolerance |-> tolerance_ms,
     ntp_result |-> r, bt_exit |-> FALSE]

\* TimestampEnforcer::new once the first query has returned r
TimestampEnforcer_new(tolerance_ms, r) ==
    [live |-> TRUE, cursor |-> tolerance_ms, tolerance |-> tolerance_ms,
     ntp_result |-> r, bt_exit |-> FALSE]

\* the thread TimestampEnforcer::new spawns, before its first test
Thread_spawn(r) == [pc |-> "test", n |-> 0, best_ping |-> r.roundtrip]

\* TimestampEnforcer::current_timestamp at the clock clk; negative where the
\* subtraction of the offset underflows
current_timestamp(e, clk) == clk + e.ntp_result.offset

\* EventValidator::validate that takes the clock alone for its lower bound
validate_from_now(e, meta, clk) ==
    IF meta.stamps = << >>
    THEN (IF needs_signature(meta) THEN "NoTimestamp" ELSE "Abstain")
    ELSE IF Head(meta.stamps) < current_timestamp(e, clk) - e.tolerance
            \/ Head(meta.stamps) > current_timestamp(e, clk) + e.tolerance
         THEN "OutOfBounds" ELSE "Abstain"

\* EventValidator::validate that asks for no signature before it abstains
validate_unsigned(e, meta, clk) ==
    IF meta.stamps = << >> THEN "Abstain"
    ELSE IF Head(meta.stamps) < e.cursor - e.tolerance
            \/ Head(meta.stamps) > current_timestamp(e, clk) + e.tolerance
         THEN "OutOfBounds" ELSE "Abstain"

\* EventValidator::validate that leaves out the tolerance above
validate_strict(e, meta, clk) ==
    IF meta.stamps = << >>
    THEN (IF needs_signature(meta) THEN "NoTimestamp" ELSE "Abstain")
    ELSE IF Head(meta.stamps) < e.cursor - e.tolerance
            \/ Head(meta.stamps) > current_timestamp(e, clk)
         THEN "OutOfBounds" ELSE "Abstain"

\* EventValidator::validate for TimestampEnforcer
validate(e, meta, clk) ==
    IF meta.stamps = << >>
    THEN (IF needs_signature(meta) THEN "NoTimestamp" ELSE "Abstain")
    ELSE IF e.cursor < e.tolerance \/ current_timestamp(e, clk) < 0 THEN "Panic"
    ELSE IF Head(meta.stamps) < e.cursor - e.tolerance
            \/ Head(meta.stamps) > current_timestamp(e, clk) + e.tolerance
         THEN "OutOfBounds" ELSE "Abstain"

\* EventSink::feed that takes every timestamp for the cursor
feed_latest(e, meta) ==
    IF meta.stamps # << >> THEN [e EXCEPT !.cursor = Head(meta.stamps)] ELSE e

\* EventSink::feed for TimestampEnforcer
feed(e, meta) ==
    IF meta.stamps # << >> /\ Head(meta.stamps) > e.cursor
    THEN [e EXCEPT !.cursor = Head(meta.stamps)] ELSE e

\* the background thread's test that does not read the exit flag
Thread_exit_never(flag) == "body"

\* the test of the background thread's loop
Thread_exit(flag) == IF flag THEN "done" ELSE "body"

\* the body of the background thread's loop on the result r of its query,
\* were one made: the thread's locals and the shared result afterwards
Thread_loop(t, cached, r) ==
    LET queries == t.n > PollEvery
        takes == queries /\ r.ok /\ r.roundtrip < t.best_ping + PingSlack
    IN [ bt  |-> [pc |-> "test",
                  n |-> (IF queries THEN 0 ELSE t.n) + 1,
                  best_ping |-> IF takes THEN r.roundtrip ELSE t.best_ping],
         ntp |-> IF takes THEN r ELSE cached,
         out |-> IF ~queries THEN "Idle" ELSE IF ~r.ok THEN "Failed"
                 ELSE IF takes THEN "Replaced" ELSE "Kept" ]

Min(a, b) == IF a < b THEN a ELSE b

Max(a, b) == IF a > b THEN a ELSE b

\* the system clock moves on
Clock_tick ==
    /\ now < Epoch + MaxTicks
    /\ now' = now + 1
    /\ last' = Op("tick", 0, 0, "none", now + 1)
    /\ UNCHANGED <<dioVars, restVars, enforcer, bt, seen>>

\* EventValidator::validate on the metadata of an event
Enforcer_validate(meta) ==
    /\ enforcer.live
    /\ last' = [Op("validate", 0, 0, validate(enforcer, meta, now), 0) EXCEPT !.meta = meta]
    /\ UNCHANGED <<dioVars, restVars, timeVars>>

\* EventSink::feed on the metadata of an event
Enforcer_feed(meta) ==
    /\ enforcer.live
    /\ enforcer' = feed(enforcer, meta)
    /\ seen' = IF meta.stamps # << >>
               THEN [seen EXCEPT !.fed = Max(@, Head(meta.stamps))] ELSE seen
    /\ last' = [Op("feed_time", 0, 0, "Ok", 0) EXCEPT !.meta = meta]
    /\ UNCHANGED <<dioVars, restVars, bt, now>>

\* EventMetadataLinter::metadata_lint_event: the Timestamp entry it returns
Enforcer_lint ==
    /\ enforcer.live
    /\ last' = Op("lint_time", 0, 0,
                  IF current_timestamp(enforcer, now) < 0 THEN "Panic" ELSE "Ok",
                  current_timestamp(enforcer, now))
    /\ UNCHANGED <<dioVars, restVars, timeVars>>

\* Drop for TimestampEnforcer
Enforcer_drop ==
    /\ enforcer.live
    /\ enforcer' = [enforcer EXCEPT !.live = FALSE, !.bt_exit = TRUE]
    /\ last' = Op("drop_time", 0, 0, "none", 0)
    /\ UNCHANGED <<dioVars, restVars, bt, now, seen>>

\* the background thread reads the exit flag at the head of its loop
Thread_test ==
    /\ bt.pc = "test"
    /\ bt' = [bt EXCEPT !.pc = Thread_exit(enforcer.bt_exit)]
    /\ last' = Op("bt_test", 0, 0, Thread_exit(enforcer.bt_exit), bt.n)
    /\ UNCHANGED <<dioVars, restVars, enforcer, now, seen>>

\* the background thread runs the body of its loop; r is what its query
\* returns when it makes one
Thread_body(r) ==
    /\ bt.pc = "body"
    /\ (bt.n > PollEvery \/ r = NtpResult(FALSE, 0, 0))
    /\ LET l == Thread_loop(bt, enforcer.ntp_result, r)
       IN /\ bt' = l.bt
          /\ enforcer' = [enforcer EXCEPT !.ntp_result = l.ntp]
          /\ seen' = IF bt.n > PollEvery /\ r.ok
                     THEN [seen EXCEPT !.ping = Min(@, r.roundtrip)] ELSE seen
          /\ last' = [Op("bt_body", 0, 0, l.out, r.roundtrip) EXCEPT !.best = seen.ping]
    /\ UNCHANGED <<dioVars, restVars, now>>

\* the state after TimestampEnforcer::new, for a tolerance, an offset and a
\* round trip of the first query out of the given sets
InitEnforcer(tolerances, offsets, roundtrips) ==
    /\ log = << >>
    /\ primary = NoIndex.primary
    /\ secondary = NoIndex.secondary
    /\ dstate = [s \in StateIds |-> DioState_new]
    /\ dio = [i \in DioIds |-> NoDio]
    /\ dao = [h \in DaoIds |-> NoDao]
    /\ nextVal = 1
    /\ deletes = [s \in StateIds |-> NoDeletes]
    /\ delorder = [s \in StateIds |-> << >>]
    /\ tasks = << >>
    /\ unlocks = << >>
    /\ NoRest
    /\ last = Op("init", 0, 0, "none", 0)
    /\ now = Epoch
    /\ \E tolerance_ms \in tolerances, offset \in offsets, roundtrip \in roundtrips :
          /\ enforcer = TimestampEnforcer_new(tolerance_ms, NtpResult(TRUE, offset, roundtrip))
          /\ bt = Thread_spawn(NtpResult(TRUE, offset, roundtrip))
          /\ seen = [fed |-> 0, ping |-> roundtrip]

\* an enforcer of any tolerance whose first query reported any offset
InitTime == InitEnforcer(Tolerances, Offsets, {Lowest(Pings)})

\* the enforcer at work in a chain: it validates, is fed and lints while the
\* clock runs, before the background thread makes its first query
NextTime ==
    \/ Clock_tick
    \/ \E meta \in Metas : Enforcer_validate(meta)
    \/ \E meta \in Metas : Enforcer_feed(meta)
    \/ Enforcer_lint

SpecTime == InitTime /\ [][NextTime]_vars

\* the background thread and the drop of its enforcer
ThreadStep ==
    \/ Thread_test
    \/ \E ok \in BOOLEAN, roundtrip \in Pings : Thread_body(NtpResult(ok, 0, IF ok THEN roundtrip ELSE 0))

NextNtp ==
    \/ Enforcer_drop
    \/ ThreadStep

\* an enforcer whose first query took any round trip
InitNtp == InitEnforcer({Lowest(Tolerances)}, {0}, Pings)

SpecNtp == InitNtp /\ [][NextNtp]_vars

\* the scheduler lets the thread run and every query returns
SpecNtpLive == SpecNtp /\ WF_vars(ThreadStep)

-----------------------------------------------------------------------------
(* The operations *)

Init ==
    /\ log = << >>
    /\ primary = NoIndex.primary
    /\ secondary = NoIndex.secondary
    /\ dstate = [s \in StateIds |-> DioState_new]
    /\ dio = [i \in DioIds |-> NoDio]
    /\ dao = [h \in DaoIds |-> NoDao]
    /\ nextVal = 1
    /\ deletes = [s \in StateIds |-> NoDeletes]
    /\ delorder = [s \in StateIds |-> << >>]
    /\ tasks = << >>
    /\ unlocks = << >>
    /\ NoRest
    /\ last = Op("init", 0, 0, "none", 0)
    /\ NoTime

\* Chain::dio_ext that hands out the DioState of a Dio already open
Chain_dio_ext_shared(session, scope) ==
    /\ FreeDios # {} /\ FreeStates # {}
    /\ LET i == Lowest(FreeDios)
           s == IF LiveDios # {} THEN dio[Lowest(LiveDios)].st ELSE Lowest(FreeStates)
       IN /\ dio' = [dio EXCEPT ![i] = [st |-> s, own |-> TRUE, scope |-> scope, session |-> session, pend |-> 0]]
          /\ dstate' = IF LiveDios # {} THEN dstate
                       ELSE [dstate EXCEPT ![s] = DioState_new]
          /\ last' = Op("dio", s, 0, "none", 0)
    /\ UNCHANGED <<farVars, unlocks, log, primary, secondary, dao, nextVal, deletes, delorder, tasks>>

\* Chain::dio_ext: a new Dio of the given scope over a fresh DioState
Chain_dio_ext(session, scope) ==
    /\ FreeDios # {} /\ FreeStates # {}
    /\ LET i == Lowest(FreeDios)
           s == Lowest(FreeStates)
       IN /\ dio' = [dio EXCEPT ![i] = [st |-> s, own |-> TRUE, scope |-> scope, session |-> session, pend |-> 0]]
          /\ dstate' = [dstate EXCEPT ![s] = DioState_new]
          /\ last' = Op("dio", s, 0, "none", 0)
    /\ UNCHANGED <<farVars, unlocks, log, primary, secondary, dao, nextVal, deletes, delorder, tasks>>

\* Chain::dio_for_dao: a new Dio of the given scope over the DioState of a
\* Dao, whose dirty flag is cleared
Chain_dio_for_dao(h, session, scope) ==
    /\ dao[h].live /\ FreeDios # {}
    /\ LET i == Lowest(FreeDios)
       IN /\ dio' = [dio EXCEPT ![i] = [st |-> dao[h].st, own |-> FALSE, scope |-> scope, session |-> session, pend |-> 0]]
          /\ dao' = [dao EXCEPT ![h].dirty = FALSE]
          /\ last' = Op("dio_for_dao", dao[h].st, dao[h].row.key, "none", 0)
    /\ UNCHANGED <<farVars, unlocks, log, primary, secondary, dstate, nextVal, deletes, delorder, tasks>>

\* store_ext that stages the new row at once in place of forking it
StoreRow_staged(i, k, tree, op) ==
    /\ dio[i].st # 0 /\ FreeDaos # {} /\ nextVal <= MaxWrites
    /\ LET s == dio[i].st
           new == NewDao(s, Row(k, nextVal, tree))
       IN /\ dstate' = [dstate EXCEPT ![s] = DioState_dirty(@, k, tree, new.row)]
          /\ dao' = [dao EXCEPT ![Lowest(FreeDaos)] =
                        [new EXCEPT !.dirty = TRUE, !.fresh = TRUE, !.held = TRUE]]
          /\ last' = Op(op, s, k, "Ok", nextVal)
    /\ nextVal' = nextVal + 1
    /\ UNCHANGED <<farVars, unlocks, log, primary, secondary, dio, deletes, delorder, tasks>>

\* a new row enters the Dio: Dao::new, then fork
StoreRow(i, k, tree, op) ==
    /\ dio[i].st # 0 /\ FreeDaos # {} /\ nextVal <= MaxWrites
    /\ LET s == dio[i].st
           new == NewDao(s, Row(k, nextVal, tree))
       IN /\ dstate' = [dstate EXCEPT ![s] = Dao_fork(@, new)]
          /\ dao' = [dao EXCEPT ![Lowest(FreeDaos)] =
                        [new EXCEPT !.dirty = TRUE, !.fresh = TRUE, !.held = TRUE]]
          /\ last' = Op(op, s, k, "Ok", nextVal)
    /\ nextVal' = nextVal + 1
    /\ UNCHANGED <<farVars, unlocks, log, primary, secondary, dio, deletes, delorder, tasks>>

\* Dio::store / Dio::store_ext with a generated or a supplied key
Dio_store_ext(i, k) == StoreRow(i, k, 0, "store")

\* DaoVec::push: a new row in the collection of parent
DaoVec_push(i, k, parent) == k # parent /\ StoreRow(i, k, parent, "push")

\* Dio::load; the Dao it returns is kept when a handle is free
Dio_load_op(i, k) ==
    /\ dio[i].st # 0
    /\ LET s == dio[i].st
           r == Dio_load_session(dstate[s], k, dio[i].session)
       IN /\ dstate' = [dstate EXCEPT ![s] = Dio_load_from_event(@, r)]
          /\ dao' = IF r.out = "Ok" /\ FreeDaos # {}
                    THEN [dao EXCEPT ![Lowest(FreeDaos)] = NewDao(s, r.row)]
                    ELSE dao
          /\ last' = [Op("load", s, k, r.out, r.row.data) EXCEPT
                          !.session = dio[i].session, !.src = r.src]
    /\ UNCHANGED <<farVars, unlocks, log, primary, secondary, dio, nextVal, deletes, delorder, tasks>>

\* Dao::auth_mut followed by an assignment of the read option: a mutation of
\* the row that replaces its read authorization
Dao_auth_mut(h, auth) ==
    /\ dao[h].live /\ dao[h].row.auth # auth
    /\ dstate' = [dstate EXCEPT ![dao[h].st] = Dao_fork(@, dao[h])]
    /\ dao' = [dao EXCEPT ![h].row.auth = auth, ![h].dirty = TRUE,
                          ![h].held = IF dao[h].dirty THEN @ ELSE TRUE]
    /\ last' = Op("auth_mut", dao[h].st, dao[h].row.key, "Ok", dao[h].row.data)
    /\ UNCHANGED <<farVars, unlocks, log, primary, secondary, dio, nextVal, deletes, delorder, tasks>>

\* Dio::children; the Daos it returns are let go at once
Dio_children_op(i, parent) ==
    /\ dio[i].st # 0
    /\ LET s == dio[i].st
           r == Dio_children(dstate[s], parent)
       IN /\ dstate' = [dstate EXCEPT ![s].cache_load = r.cache]
          /\ last' = [Op("children", s, parent,
                         IF r.err # 0 THEN "ObjectStillLocked" ELSE "Ok", r.err)
                        EXCEPT !.ret = IF r.err # 0 THEN << >> ELSE r.ret]
    /\ UNCHANGED <<farVars, unlocks, log, primary, secondary, dio, dao, nextVal, deletes, delorder, tasks>>

\* DerefMut for Dao: a field of the row is written
Dao_deref_mut(h) ==
    /\ dao[h].live /\ nextVal <= MaxWrites
    /\ dstate' = [dstate EXCEPT ![dao[h].st] = Dao_fork(@, dao[h])]
    /\ dao' = [dao EXCEPT ![h].row.data = nextVal, ![h].dirty = TRUE,
                          ![h].held = IF dao[h].dirty THEN @ ELSE TRUE]
    /\ last' = Op("mutate", dao[h].st, dao[h].row.key, "Ok", nextVal)
    /\ nextVal' = nextVal + 1
    /\ UNCHANGED <<farVars, unlocks, log, primary, secondary, dio, deletes, delorder, tasks>>

FlushOutcome(h) ==
    IF ~h.dirty THEN "Clean" ELSE IF h.fresh THEN "FlushedNew" ELSE "Flushed"

\* Dao::commit
Dao_commit(h) ==
    /\ dao[h].live
    /\ dstate' = [dstate EXCEPT ![dao[h].st] = Dao_flush(@, dao[h])]
    /\ dao' = IF dao[h].dirty
              THEN [Released(dao, dao[h].st, dao[h].row.key)
                        EXCEPT ![h].dirty = FALSE, ![h].fresh = FALSE]
              ELSE dao
    /\ last' = Op("dao_commit", dao[h].st, dao[h].row.key, FlushOutcome(dao[h]),
                  dao[h].row.data)
    /\ UNCHANGED <<farVars, unlocks, log, primary, secondary, dio, nextVal, deletes, delorder, tasks>>

\* Drop for Dao
Dao_drop(h) ==
    /\ dao[h].live
    /\ LET daoF == [(IF dao[h].dirty THEN Released(dao, dao[h].st, dao[h].row.key)
                     ELSE dao) EXCEPT ![h] = NoDao]
       IN /\ dao' = daoF
          /\ dstate' = Reclaim([dstate EXCEPT ![dao[h].st] = Dao_flush(@, dao[h])],
                               dio, daoF)
          /\ deletes' = ReclaimDeletes(dio, daoF)
          /\ delorder' = ReclaimOrder(delorder, dio, daoF)
    /\ last' = Op("dao_drop", dao[h].st, dao[h].row.key, FlushOutcome(dao[h]),
                  dao[h].row.data)
    /\ UNCHANGED <<farVars, unlocks, log, primary, secondary, dio, nextVal, tasks>>

\* Dao::delete, which consumes the Dao
Dao_delete_op(h) ==
    /\ dao[h].live
    /\ LET s == dao[h].st
           k == dao[h].row.key
           daoF == [(IF dao[h].dirty THEN Released(dao, s, k) ELSE dao)
                        EXCEPT ![h] = NoDao]
       IN /\ dao' = daoF
          /\ dstate' = Reclaim([dstate EXCEPT ![s] = Dao_delete(@, dao[h])], dio, daoF)
          /\ deletes' = IF s \in Referenced(dio, daoF)
                        THEN [deletes EXCEPT ![s][k] = IF @ = 0 THEN 1 ELSE 2]
                        ELSE [deletes EXCEPT ![s] = NoDeletes]
          /\ delorder' = ReclaimOrder(
                 [delorder EXCEPT ![s] = IF SeqHas(@, k) THEN @ ELSE Append(@, k)],
                 dio, daoF)
          /\ last' = Op("delete", s, k, "Ok", 0)
    /\ UNCHANGED <<farVars, unlocks, log, primary, secondary, dio, nextVal, tasks>>

\* the events the spawned tasks have yet to feed
RECURSIVE PendingEvents(_)
PendingEvents(tk) ==
    IF tk = << >> THEN 0
    ELSE Len(Head(tk).trans.events) + PendingEvents(Tail(tk))

\* the log has room for the events of a commit
CommitFitsIn(s, lint, room) ==
    Len(log) + PendingEvents(tasks) + (IF lint THEN 1 ELSE 0)
        + Len(dstate[s].store) + Cardinality(DeletedKeys(dstate[s])) <= room

CommitFits(s, lint) == CommitFitsIn(s, lint, MaxLog)

\* the inputs of one commit that make a difference: nothing fails and nothing
\* is linted when the commit has nothing to send, nothing is linted across
\* events when the lint of an event fails, and no result is read for a
\* transaction of scope None
CommitInputs(s, scope, fault, lint, res) ==
    /\ fault \in Faults /\ lint \in BOOLEAN /\ res \in Results
    /\ Dio_commit_skips(dstate[s]) => (fault = "none" /\ ~lint /\ res = "Ok")
    /\ fault # "none" => (~lint /\ res = "Ok")
    /\ scope = "None" => res = "Ok"

\* a commit that sends its transaction although an event failed
CommitOutcome_unchecked(ds, scope, fault, res) ==
    IF Dio_commit_skips(ds) THEN "Skipped"
    ELSE Dio_commit_wait(scope, res)

\* how Dio::commit ends
CommitOutcome(ds, scope, fault, res) ==
    IF Dio_commit_skips(ds) THEN "Skipped"
    ELSE IF fault # "none" THEN "Failed"
    ELSE Dio_commit_wait(scope, res)

\* Dio::commit that unlocks before it looks at what is staged
Dio_commit_unlock_first(ds, out) == ds.pipe_unlock

\* the keys Dio::commit hands to the task it spawns to unlock them through the
\* pipe: those of pipe_unlock, once it has found something staged or deleted
Dio_commit_unlock(ds, out) == IF out = "Skipped" THEN {} ELSE ds.pipe_unlock

\* the effect of Dio::commit with a Dio of the given scope on the Dio's state,
\* on the spawned tasks and, through the pipe, on the chain
Commit(i, s, order, scope, fault, lint, res) ==
    LET ds == dstate[s]
        idx == [primary |-> primary, secondary |-> secondary]
        out == CommitOutcome(ds, scope, fault, res)
        trans == Transaction(scope, Dio_commit_batch(ds, order, lint))
        fed == Pipe_feed(log, idx, trans.events, res)
    IN [out   |-> out,
        trans |-> IF out \in {"Skipped", "Failed"} THEN NoTrans ELSE trans,
        ds    |-> IF out = "Skipped" THEN dstate
                  ELSE [dstate EXCEPT ![s] = Dio_commit_state(@)],
        tasks |-> IF out = "Queued" THEN Append(tasks, [dio |-> i, trans |-> trans])
                  ELSE tasks,
        unlocks |-> IF Dio_commit_unlock(ds, out) = {} THEN unlocks
                    ELSE Append(unlocks, [dio |-> i, keys |-> Dio_commit_unlock(ds, out)]),
        log   |-> IF out \in Waited THEN fed.log ELSE log,
        idx   |-> IF out \in Waited THEN fed.idx ELSE idx]

\* the record of a commit: the number of events that reached the log, the
\* transaction made, the keys found deleted and the inputs; of a commit that
\* failed, the number of rows that were staged
CommitOp(op, s, c, fault, lint, res) ==
    [Op(op, s, 0, c.out,
        IF c.out = "Fed" THEN Len(c.trans.events)
        ELSE IF c.out = "Failed" THEN Len(dstate[s].store) ELSE 0)
       EXCEPT !.keys = IF c.out = "Skipped" THEN {} ELSE DeletedKeys(dstate[s]),
              !.fault = fault, !.lint = lint, !.res = res, !.trans = c.trans]

\* Dio::commit
Dio_commit(i, fault, lint, res) ==
    /\ dio[i].st # 0 /\ CommitFits(dio[i].st, lint)
    /\ CommitInputs(dio[i].st, dio[i].scope, fault, lint, res)
    /\ \E order \in IterationOrders(DeletedKeys(dstate[dio[i].st])) :
        LET c == Commit(i, dio[i].st, order, dio[i].scope, fault, lint, res)
        IN /\ dstate' = c.ds
           /\ tasks' = c.tasks
           /\ unlocks' = c.unlocks
           /\ log' = c.log
           /\ primary' = c.idx.primary
           /\ secondary' = c.idx.secondary
           /\ last' = CommitOp("commit", dio[i].st, c, fault, lint, res)
    /\ UNCHANGED <<farVars, dio, dao, nextVal, deletes, delorder>>

\* what Drop for Dio makes of the outcome of its commit: an error trips the
\* debug assertion in a build that has debug assertions and is let go in one
\* that has none
Dio_drop_outcome(out, build) ==
    IF out \in CommitErrors
    THEN (IF build = "debug" THEN "Panic" ELSE "Swallowed")
    ELSE out

\* the tasks a Dio that is gone has left behind are no longer told apart
Orphaned(tk, i) ==
    [n \in 1..Len(tk) |-> IF tk[n].dio = i THEN [tk[n] EXCEPT !.dio = 0] ELSE tk[n]]

\* Drop for Dio: the implicit commit, then the Dio is gone
Dio_drop(i, fault, lint, res, build) ==
    /\ dio[i].st # 0 /\ CommitFits(dio[i].st, lint)
    /\ CommitInputs(dio[i].st, dio[i].scope, fault, lint, res)
    /\ build \in Builds
    /\ \E order \in IterationOrders(DeletedKeys(dstate[dio[i].st])) :
        LET c == Commit(i, dio[i].st, order, dio[i].scope, fault, lint, res)
            dioF == [dio EXCEPT ![i] = NoDio]
        IN /\ c.out \notin CommitErrors => build = "debug"
           /\ dio' = dioF
           /\ dstate' = Reclaim(c.ds, dioF, dao)
           /\ tasks' = Orphaned(c.tasks, i)
           /\ unlocks' = c.unlocks
           /\ log' = c.log
           /\ primary' = c.idx.primary
           /\ secondary' = c.idx.secondary
           /\ deletes' = ReclaimDeletes(dioF, dao)
           /\ delorder' = ReclaimOrder(delorder, dioF, dao)
           /\ last' = [CommitOp("dio_drop", dio[i].st, c, fault, lint, res)
                          EXCEPT !.out = Dio_drop_outcome(c.out, build)]
    /\ UNCHANGED <<farVars, dao, nextVal>>

\* a spawned task runs: it feeds its transaction to the pipe and lets the
\* outcome go.  The runtime runs the spawned tasks in any order
Task_run(n, res) ==
    /\ n \in 1..Len(tasks) /\ res \in Results \ {"Closed"}
    /\ LET fed == Pipe_feed(log, [primary |-> primary, secondary |-> secondary],
                            tasks[n].trans.events, res)
       IN /\ log' = fed.log
          /\ primary' = fed.idx.primary
          /\ secondary' = fed.idx.secondary
    /\ tasks' = SeqWithoutAt(tasks, n)
    /\ last' = [Op("feed", 0, 0,
                   IF \E m \in 1..(n - 1) : tasks[m].dio = tasks[n].dio /\ tasks[n].dio # 0
                   THEN "Overtook" ELSE "InOrder",
                   IF res = "Ok" THEN Len(tasks[n].trans.events) ELSE 0)
                  EXCEPT !.trans = tasks[n].trans]
    /\ UNCHANGED <<farVars, unlocks, dstate, dio, dao, nextVal, deletes, delorder>>

\* a Dao locks its key through the pipe: the key is recorded in pipe_unlock, to
\* be unlocked by the commit of the Dio
Dao_try_lock(h) ==
    /\ dao[h].live /\ dao[h].row.key \notin dstate[dao[h].st].pipe_unlock
    /\ dstate' = [dstate EXCEPT ![dao[h].st].pipe_unlock = @ \cup {dao[h].row.key}]
    /\ last' = Op("try_lock", dao[h].st, dao[h].row.key, "Ok", 0)
    /\ UNCHANGED <<farVars, unlocks, log, primary, secondary, dio, dao, nextVal,
                   deletes, delorder, tasks>>

\* a spawned task runs: it unlocks its keys through the pipe, one by one, and
\* lets the outcomes go
Unlock_run(n) ==
    /\ n \in 1..Len(unlocks)
    /\ unlocks' = SeqWithoutAt(unlocks, n)
    /\ last' = [Op("unlock", 0, 0, "Ok", 0) EXCEPT !.keys = unlocks[n].keys]
    /\ UNCHANGED <<farVars, log, primary, secondary, dstate, dio, dao, nextVal,
                   deletes, delorder, tasks>>

\* the chain is closed and opened again: its indexes are rebuilt from the log
Chain_reopen ==
    /\ LiveDios = {} /\ LiveDaos = {}
    /\ log # << >>
    /\ primary' = Chain_replay(log).primary
    /\ secondary' = Chain_replay(log).secondary
    /\ last' = Op("reopen", 0, 0, "none", 0)
    /\ UNCHANGED <<farVars, unlocks, log, dstate, dio, dao, nextVal, deletes, delorder, tasks>>

\* the one key whose collection is pushed to and listed
ParentKey == Lowest(Keys)

\* one transactional context at a time: a new DioState is opened only when
\* no Dio and no Dao holds an earlier one
Next ==
    \/ (Referenced(dio, dao) = {} /\ Chain_dio_ext(TestSession, "Local"))
    \/ \E h \in DaoIds : Chain_dio_for_dao(h, TestSession, "Local")
    \/ (nextVal <= SoloWrites /\ \E i \in DioIds, k \in Keys : Dio_store_ext(i, k))
    \/ (nextVal <= SoloWrites /\ \E i \in DioIds, k \in Keys : DaoVec_push(i, k, ParentKey))
    \/ \E i \in DioIds, k \in Keys : Dio_load_op(i, k)
    \/ \E i \in DioIds : Dio_children_op(i, ParentKey)
    \/ (nextVal <= SoloWrites /\ \E h \in DaoIds : Dao_deref_mut(h))
    \/ \E h \in DaoIds : Dao_commit(h)
    \/ \E h \in DaoIds : Dao_drop(h)
    \/ \E h \in DaoIds : Dao_delete_op(h)
    \/ \E i \in DioIds :
          /\ dio[i].st # 0 /\ CommitFitsIn(dio[i].st, FALSE, SoloLog)
          /\ Dio_commit(i, "none", FALSE, "Ok")
    \/ \E i \in DioIds :
          /\ dio[i].st # 0 /\ CommitFitsIn(dio[i].st, FALSE, SoloLog)
          /\ Dio_drop(i, "none", FALSE, "Ok", "debug")
    \/ Chain_reopen

Spec == Init /\ [][Next]_vars

\* transactional contexts side by side, storing, changing and reading one row
\* of the collection
ConcurrentKey == Lowest(Keys \ {ParentKey})

NextConcurrent ==
    \/ Chain_dio_ext(TestSession, "Local")
    \/ \E h \in DaoIds : Chain_dio_for_dao(h, TestSession, "Local")
    \/ (nextVal <= SoloWrites /\ \E i \in DioIds : DaoVec_push(i, ConcurrentKey, ParentKey))
    \/ \E i \in DioIds : Dio_load_op(i, ConcurrentKey)
    \/ \E i \in DioIds : Dio_children_op(i, ParentKey)
    \/ (nextVal <= SoloWrites /\ \E h \in DaoIds : Dao_deref_mut(h))
    \/ \E h \in DaoIds : Dao_commit(h)
    \/ \E h \in DaoIds : Dao_drop(h)
    \/ \E i \in DioIds :
          /\ dio[i].st # 0 /\ CommitFitsIn(dio[i].st, FALSE, SoloLog)
          /\ Dio_commit(i, "none", FALSE, "Ok")
    \/ \E i \in DioIds :
          /\ dio[i].st # 0 /\ CommitFitsIn(dio[i].st, FALSE, SoloLog)
          /\ Dio_drop(i, "none", FALSE, "Ok", "debug")

SpecConcurrent == Init /\ [][NextConcurrent]_vars

\* one transactional context over one row, written up to MaxWrites times
NextRow ==
    \/ (Referenced(dio, dao) = {} /\ Chain_dio_ext(TestSession, "Local"))
    \/ \E h \in DaoIds : Chain_dio_for_dao(h, TestSession, "Local")
    \/ \E i \in DioIds : Dio_store_ext(i, ConcurrentKey)
    \/ \E i \in DioIds : Dio_load_op(i, ConcurrentKey)
    \/ \E h \in DaoIds : Dao_deref_mut(h)
    \/ \E h \in DaoIds : Dao_commit(h)
    \/ \E h \in DaoIds : Dao_drop(h)
    \/ \E h \in DaoIds : Dao_delete_op(h)
    \/ \E i \in DioIds :
          /\ dio[i].st # 0 /\ CommitFitsIn(dio[i].st, FALSE, SoloLog)
          /\ Dio_commit(i, "none", FALSE, "Ok")
    \/ \E i \in DioIds :
          /\ dio[i].st # 0 /\ CommitFitsIn(dio[i].st, FALSE, SoloLog)
          /\ Dio_drop(i, "none", FALSE, "Ok", "debug")

SpecRow == Init /\ [][NextRow]_vars

\* one transactional context at a time, of any scope, that stores rows and
\* deletes them; its commits can fail while the events are built or be turned
\* down by the chain, and its transactions wait in spawned tasks when the
\* scope is None
NextCommit ==
    \/ (Referenced(dio, dao) = {} /\ \E scope \in Scopes : Chain_dio_ext(TestSession, scope))
    \/ (nextVal <= SoloWrites /\ \E i \in DioIds, k \in Keys : Dio_store_ext(i, k))
    \/ \E h \in DaoIds : Dao_drop(h)
    \/ \E h \in DaoIds : Dao_delete_op(h)
    \/ \E i \in DioIds, fault \in Faults, lint \in BOOLEAN, res \in Results :
          Dio_commit(i, fault, lint, res)
    \/ \E i \in DioIds, fault \in Faults, lint \in BOOLEAN, res \in Results,
          build \in Builds :
          Dio_drop(i, fault, lint, res, build)
    \/ \E n \in 1..MaxLog, res \in Results : Task_run(n, res)

SpecCommit == Init /\ [][NextCommit]_vars

\* the lists of at most n elements of S, repetitions included
Lists(S, n) == UNION {[1..m -> S] : m \in 0..n}

\* the keys that can be children of the one parent
ChildKeys == Keys \ {ParentKey}

\* a chain on which the rows of the given keys were committed under the parent
RECURSIVE Committed(_)
Committed(ks) ==
    IF ks = {} THEN << >>
    ELSE LET k == CHOOSE x \in ks : \A y \in ks : y <= x
             before == Committed(ks \ {k})
         IN Append(before, DataEvent(Row(k, Len(before) + 1, ParentKey)))

\* a DioState in which the rows listed in staged were flushed under the
\* parent, the rows of cached were loaded, and the keys of del deleted
ChildrenState(lg, staged, cached, del, lck) ==
    [ DioState_new EXCEPT
        !.store = [n \in 1..Len(staged) |-> Row(staged[n], NumKeys + staged[n], ParentKey)],
        !.cache_store_primary =
            [k \in Keys |-> IF SeqHas(staged, k) THEN Row(k, NumKeys + k, ParentKey)
                            ELSE NoRow],
        !.cache_store_secondary = [@ EXCEPT ![ParentKey] = staged],
        !.cache_load =
            [k \in Keys |-> IF k \in cached
                            THEN Row_from_event(lg[Chain_replay(lg).primary[k]])
                            ELSE NoRow],
        !.deleted = [k \in Keys |-> IF k \in del THEN Row(k, 0, ParentKey) ELSE NoRow],
        !.locked = lck ]

\* Dio::children over every chain and every DioState: the keys the secondary
\* index lists for the parent, the rows on the log, and what the Dio has
\* staged, cached, deleted and locked are all drawn freely
InitChildren ==
    \E ks \in SUBSET ChildKeys, listed, staged \in Lists(ChildKeys, MaxList),
       cached, del, lck \in SUBSET ChildKeys :
        /\ cached \subseteq {k \in ks : ~SeqHas(staged, k)}
        /\ log = Committed(ks)
        /\ primary = Chain_replay(log).primary
        /\ secondary = [NoIndex.secondary EXCEPT ![ParentKey] = listed]
        /\ dstate = [s \in StateIds |->
                        IF s = Lowest(StateIds)
                        THEN ChildrenState(log, staged, cached, del, lck)
                        ELSE DioState_new]
        /\ dio = [i \in DioIds |->
                     IF i = Lowest(DioIds)
                     THEN [st |-> Lowest(StateIds), own |-> TRUE, scope |-> "Local", session |-> TestSession, pend |-> 0]
                     ELSE NoDio]
        /\ dao = [h \in DaoIds |-> NoDao]
        /\ nextVal = 1
        /\ deletes = [s \in StateIds |-> NoDeletes]
        /\ delorder = [s \in StateIds |-> << >>]
        /\ tasks = << >>
        /\ unlocks = << >>
        /\ NoRest
        /\ last = Op("init", 0, 0, "none", 0)
        /\ NoTime

NextChildren == \E i \in DioIds : Dio_children_op(i, ParentKey)

SpecChildren == InitChildren /\ [][NextChildren]_vars

-----------------------------------------------------------------------------
(* Properties *)

HasDio(s) == \E i \in DioIds : dio[i].st = s

\* what a Dio over state s gets from load(k) now
LoadNow(s, k) == Dio_load(dstate[s], k)

Flushes == {"Flushed", "FlushedNew"}

CommitOps == {"commit", "dio_drop"}

\* C1, as first stated: while a Dao whose field was mutated is neither
\* committed nor dropped, every load of its key on the same DIO fails with
\* ObjectStillLocked
C1_LockedWhileDirty ==
    \A h \in LiveDaos :
        (dao[h].dirty /\ ~dao[h].fresh /\ HasDio(dao[h].st))
            => LoadNow(dao[h].st, dao[h].row.key).out = "ObjectStillLocked"

\* C1: the lock is per key.  From the mutation of a Dao of key k until that
\* Dao or any other dirty Dao of k on the same DIO is committed or dropped,
\* every load of k on that DIO fails with ObjectStillLocked, whatever is
\* staged, cached or deleted there
C1_LockedWhileHeld ==
    \A h \in LiveDaos :
        (dao[h].held /\ ~dao[h].fresh /\ HasDio(dao[h].st))
            => LoadNow(dao[h].st, dao[h].row.key).out = "ObjectStillLocked"

\* a load has just failed on the lock of a mutated Dao although its key is
\* staged in the DIO
C1_Witness ==
    /\ last.op = "load" /\ last.out = "ObjectStillLocked"
    /\ dstate[last.st].cache_store_primary[last.key] # NoRow
    /\ \E h \in LiveDaos :
        /\ dao[h].st = last.st /\ dao[h].row.key = last.key
        /\ dao[h].held /\ dao[h].dirty /\ ~dao[h].fresh

C3_Precedence ==
    LET ds == dstate[last'.st]
        k  == last'.key
        locked == k \in ds.locked
        staged == ds.cache_store_primary[k] # NoRow
        cached == ds.cache_load[k] # NoRow
        gone   == ds.deleted[k] # NoRow
    IN  /\ locked => last'.out = "ObjectStillLocked"
        /\ (~locked /\ staged)
            => /\ last'.out = "Ok"
               /\ last'.data = ds.cache_store_primary[k].data
        /\ (~locked /\ ~staged /\ cached)
            => /\ last'.out = "Ok"
               /\ last'.data = ds.cache_load[k].data
        /\ (~locked /\ ~staged /\ ~cached /\ gone) => last'.out = "AlreadyDeleted"
        /\ (~locked /\ ~staged /\ ~cached /\ ~gone /\ primary[k] = 0)
            => last'.out = "NotFound"
        /\ (~locked /\ ~staged /\ ~cached /\ ~gone /\ primary[k] # 0)
            => /\ last'.out = "Ok"
               /\ last'.data = log[primary[k]].data
               /\ dstate'[last'.st].cache_load[k] = Row_from_event(log[primary[k]])

C3_LoadPrecedence == [][last'.op = "load" => C3_Precedence]_vars

\* a load has just returned the staged row of a key that is also deleted
C3_Witness ==
    /\ last.op = "load" /\ last.out = "Ok"
    /\ dstate[last.st].deleted[last.key] # NoRow
    /\ dstate[last.st].cache_store_primary[last.key] # NoRow

SeqRange(s) == {s[n] : n \in 1..Len(s)}

\* the payloads on the log
LogVals == {log[n].data : n \in 1..Len(log)}

\* the payloads staged in, or written through a dirty Dao of, state s
StagedVals(s) ==
    ({dstate[s].cache_store_primary[k].data : k \in Keys}
        \cup {r.data : r \in SeqRange(dstate[s].store)}
        \cup {dao[h].row.data : h \in {x \in LiveDaos : dao[x].st = s /\ dao[x].dirty}})
    \ {0}

\* the payloads of state s that no commit has written yet
Uncommitted(s) == StagedVals(s) \ LogVals

\* the payloads a Dio over state s can get from load or children
Observable(s) ==
    ({LoadNow(s, k).row.data : k \in Keys}
        \cup {r.data : r \in SeqRange(Dio_children(dstate[s], ParentKey).ret)})
    \ {0}

C5_StoreThenLoad ==
    last.op = "store"
        => /\ LoadNow(last.st, last.key).out = "Ok"
           /\ LoadNow(last.st, last.key).row.data = last.data

\* C5: after store(r) returned a Dao with key k, load(k) on the same DIO
\* yields r once that Dao has been committed or dropped
C5_FlushedStoreThenLoad ==
    (last.op \in {"dao_commit", "dao_drop"} /\ last.out = "FlushedNew" /\ HasDio(last.st))
        => /\ LoadNow(last.st, last.key).out = "Ok"
           /\ LoadNow(last.st, last.key).row.data = last.data

\* the Dao of a stored row has just been dropped on an open DIO
C5_Witness ==
    /\ last.op = "dao_drop" /\ last.out = "FlushedNew" /\ HasDio(last.st)
    /\ dstate[last.st].cache_store_primary[last.key].data = last.data

\* C6, as first stated: while the Dao returned by store for key k is neither
\* committed nor dropped, load(k) on the same DIO fails
C6_LockedWhileStored ==
    \A h \in LiveDaos :
        (dao[h].fresh /\ dao[h].dirty /\ HasDio(dao[h].st))
            => LoadNow(dao[h].st, dao[h].row.key).out = "ObjectStillLocked"

\* C6: from store until the Dao it returned, or any other dirty Dao of the
\* same key on that DIO, is committed or dropped, load of the key on that DIO
\* fails with ObjectStillLocked
C6_LockedWhileStoredHeld ==
    \A h \in LiveDaos :
        (dao[h].fresh /\ dao[h].held /\ HasDio(dao[h].st))
            => LoadNow(dao[h].st, dao[h].row.key).out = "ObjectStillLocked"

\* a load has just failed on the lock of a stored Dao
C6_Witness ==
    /\ last.op = "load" /\ last.out = "ObjectStillLocked"
    /\ \E h \in LiveDaos :
        /\ dao[h].st = last.st /\ dao[h].row.key = last.key
        /\ dao[h].fresh /\ dao[h].held /\ dao[h].dirty

\* C7, as first stated: after Dao::delete on key k, every later load(k) on the
\* same DIO fails with AlreadyDeleted
C7_DeletedForGood ==
    \A s \in StateIds, k \in Keys :
        (HasDio(s) /\ deletes[s][k] > 0) => LoadNow(s, k).out = "AlreadyDeleted"

\* C7: after Dao::delete on key k, a later load(k) on the same DIO fails with
\* AlreadyDeleted, also when k was cached or staged before the delete, as long
\* as k is neither locked nor staged again in that DIO; a locked k fails with
\* ObjectStillLocked and a k staged again yields its staged row
C7_DeletedUnlessRestaged ==
    \A s \in StateIds, k \in Keys :
        (HasDio(s) /\ deletes[s][k] > 0)
            => LoadNow(s, k).out =
                 IF k \in dstate[s].locked THEN "ObjectStillLocked"
                 ELSE IF dstate[s].cache_store_primary[k] # NoRow THEN "Ok"
                 ELSE "AlreadyDeleted"

\* a load has just failed with AlreadyDeleted on a key the chain still lists
C7_Witness ==
    /\ last.op = "load" /\ last.out = "AlreadyDeleted"
    /\ deletes[last.st][last.key] > 0
    /\ primary[last.key] # 0

\* the latest event of key k on the log is a tombstone
TombstoneLatest(k) ==
    \E n \in 1..Len(log) :
        /\ log[n].kind = "Tombstone" /\ log[n].key = k
        /\ \A m \in (n + 1)..Len(log) : log[m].key # k

\* what a Dio opened now gets from load(k)
LoadAfresh(k) == Dio_load(DioState_new, k)

\* a new DIO does not find k, now or after the chain is opened again
Retired(k) ==
    /\ LoadAfresh(k).out = "NotFound"
    /\ Chain_replay(log).primary[k] = 0

\* C8: once a DIO that deleted key k has committed, load(k) from a new DIO
\* fails with NotFound, and so it does after the chain was closed and opened
\* again, replaying the log
C8_DeleteCommitted ==
    /\ (last.op \in CommitOps /\ last.out = "Fed") => \A k \in last.keys : Retired(k)
    /\ \A k \in Keys : TombstoneLatest(k) => Retired(k)

\* the chain has just been opened again over a log that stores and then
\* tombstones a key
C8_Witness ==
    /\ last.op = "reopen"
    /\ \E k \in Keys : \E n \in 1..Len(log) :
        /\ log[n].kind = "Data" /\ log[n].key = k
        /\ TombstoneLatest(k)

\* the events the last commit fed
LastBatch == SubSeq(log, Len(log) - last.data + 1, Len(log))

TombstonesOf(evts, k) ==
    Cardinality({n \in 1..Len(evts) : evts[n].kind = "Tombstone" /\ evts[n].key = k})

\* C9: however often key k was deleted before a commit, that commit emits
\* exactly one Tombstone event for k (and none for a key not deleted)
C9_OneTombstone ==
    (last.op \in CommitOps /\ last.out = "Fed")
        => \A k \in Keys :
             TombstonesOf(LastBatch, k) = IF k \in last.keys THEN 1 ELSE 0

\* a commit has just fed the tombstone of a key deleted twice
C9_Witness ==
    /\ last.op = "commit" /\ last.out = "Fed"
    /\ \E k \in last.keys : deletes[last.st][k] = 2

\* a dirty Dao that goes out of scope is flushed: its row is the last of
\* store, it is the staged row of its key, and the key is not locked
DropFlushes ==
    (last.op = "dao_drop" /\ last.out \in Flushes /\ last.st \in Referenced(dio, dao))
        => LET ds == dstate[last.st]
           IN /\ ds.store # << >>
              /\ ds.store[Len(ds.store)].data = last.data
              /\ ds.cache_store_primary[last.key].data = last.data
              /\ ~DioState_is_locked(ds, last.key)

\* C10, as first stated: a mutation made through a Dao that goes out of scope
\* without Dao::commit is flushed and unlocked at the drop and written by the
\* DIO's commit, and a later DIO's load of the key returns the value last
\* written
C10_DroppedMutationKept ==
    /\ DropFlushes
    /\ (last.op \in CommitOps /\ last.out = "Fed")
        => \A k \in Keys :
             dstate[last.st].cache_store_primary[k] # NoRow
                => LoadAfresh(k) = LoadOk(dstate[last.st].cache_store_primary[k], "chain")

\* C10: a mutation made through a Dao that is dirty when it goes out of scope
\* is flushed and unlocked at the drop and written by the DIO's commit, and
\* unless the key was deleted in that DIO a later DIO's load of the key
\* returns the value last written
C10_DroppedMutationKeptUnlessDeleted ==
    /\ DropFlushes
    /\ (last.op \in CommitOps /\ last.out = "Fed")
        => \A k \in Keys \ last.keys :
             dstate[last.st].cache_store_primary[k] # NoRow
                => LoadAfresh(k) = LoadOk(dstate[last.st].cache_store_primary[k], "chain")

\* a commit has just written the second version of a row, staged by the drop
\* of the Dao it was mutated through
C10_Witness ==
    /\ last.op \in CommitOps /\ last.out = "Fed"
    /\ \E k \in Keys \ last.keys :
        /\ dstate[last.st].cache_store_primary[k] # NoRow
        /\ primary[k] > 1
        /\ log[primary[k]].data = dstate[last.st].cache_store_primary[k].data
        /\ \E n \in 1..(primary[k] - 1) : log[n].key = k /\ log[n].kind = "Data"

\* a step of Dio::commit or of the commit in Drop for Dio that has events to
\* send and builds them without a failure; last' holds the transaction it made
BatchSent ==
    /\ last'.op \in CommitOps
    /\ ~Dio_commit_skips(dstate[last'.st])
    /\ last'.fault = "none"

\* the step handed exactly one transaction to the pipe: one more task holds
\* it, or it went through the pipe while the commit waited
OneTransaction ==
    \/ /\ Len(tasks') = Len(tasks) + 1
       /\ tasks'[Len(tasks')].trans = last'.trans
       /\ \A n \in 1..Len(tasks) : tasks'[n].trans = tasks[n].trans
       /\ log' = log
    \/ /\ tasks' = tasks
       /\ log' \in {log, log \o last'.trans.events}

\* the events of the transaction behind the lint metadata
BatchBody == IF last'.lint THEN Tail(last'.trans.events) ELSE last'.trans.events

\* C11: a Dio::commit with at least one staged or deleted row issues exactly
\* one transaction.  Its events are the batch metadata event, without payload
\* and only when the lint across events returned entries, then one Data event
\* with its payload per staged row, then one Tombstone event without payload
\* per deleted key: every Data event is ahead of every Tombstone event and no
\* event is both
C11_BatchShape ==
    [][BatchSent =>
        LET ds == dstate[last'.st]
            n == Len(ds.store)
        IN /\ last'.trans # NoTrans
           /\ OneTransaction
           /\ last'.lint => last'.trans.events[1] = BatchEvent
           /\ Len(BatchBody) = n + Cardinality(DeletedKeys(ds))
           /\ \A j \in 1..n :
                /\ BatchBody[j].kind = "Data"
                /\ BatchBody[j].key = ds.store[j].key
                /\ BatchBody[j].data = ds.store[j].data
                /\ BatchBody[j].data # 0
           /\ \A j \in (n + 1)..Len(BatchBody) :
                /\ BatchBody[j].kind = "Tombstone"
                /\ BatchBody[j].data = 0
           /\ \A k \in DeletedKeys(ds) :
                Cardinality({j \in (n + 1)..Len(BatchBody) : BatchBody[j].key = k}) = 1
    ]_vars

\* a commit has just made a transaction of the lint metadata, the write of a
\* staged row and the tombstone of a deleted key
C11_Witness ==
    /\ last.op = "commit" /\ last.lint
    /\ Len(last.trans.events) = 3
    /\ last.trans.events[1].kind = "Batch"
    /\ last.trans.events[2].kind = "Data"
    /\ last.trans.events[3].kind = "Tombstone"

\* the keys of the events of one kind, in the order of the events
RECURSIVE KeysOfKind(_, _)
KeysOfKind(evts, kind) ==
    IF evts = << >> THEN << >>
    ELSE (IF Head(evts).kind = kind THEN << Head(evts).key >> ELSE << >>)
         \o KeysOfKind(Tail(evts), kind)

\* the payloads of the rows staged in store, in staging order
StagedOrder(ds) == [j \in 1..Len(ds.store) |-> ds.store[j].data]

\* the payloads of the events of one kind, in the order of the events
RECURSIVE DataOfKind(_, _)
DataOfKind(evts, kind) ==
    IF evts = << >> THEN << >>
    ELSE (IF Head(evts).kind = kind THEN << Head(evts).data >> ELSE << >>)
         \o DataOfKind(Tail(evts), kind)

\* C12, as first stated: within the batch the Data events are in the order the
\* rows were staged and the Tombstone events in the order the keys were deleted
C12_InsertionOrder ==
    [][BatchSent =>
        /\ DataOfKind(last'.trans.events, "Data") = StagedOrder(dstate[last'.st])
        /\ KeysOfKind(last'.trans.events, "Tombstone") = delorder[last'.st]
    ]_vars

\* C12: within the batch the Data events are in the order the rows were
\* staged; the Tombstone events are one per deleted key, in an order that need
\* not be the order of the deletions
C12_StagingOrder ==
    [][BatchSent =>
        /\ DataOfKind(last'.trans.events, "Data") = StagedOrder(dstate[last'.st])
        /\ KeysOfKind(last'.trans.events, "Tombstone")
              \in IterationOrders(DeletedKeys(dstate[last'.st]))
    ]_vars

\* a commit has just made a transaction of two tombstones that are not in the
\* order in which the two keys were deleted
C12_Witness ==
    /\ last.op = "commit" /\ last.trans # NoTrans
    /\ Len(KeysOfKind(last.trans.events, "Tombstone")) = 2
    /\ KeysOfKind(last.trans.events, "Tombstone") # delorder[last.st]
    /\ Len(delorder[last.st]) = 2

\* the outcomes with which Dio::commit returns Ok after it sent a transaction
Sent == {"Fed", "Queued"}

\* C13: Dio::commit drains both the staged rows and the deleted keys: after it
\* returned Ok both are empty, so that a commit that follows with no operation
\* in between finds nothing to send and feeds no transaction
C13_CommitDrains ==
    (last.op = "commit" /\ last.out \in Sent) => Dio_commit_skips(dstate[last.st])

\* C14: when Dio::commit returns an error of the lint, the transformation or
\* the serialization of a row, the state of the DIO is as it was before the
\* call: the rows that were staged are still staged and the keys that were
\* deleted are still deleted, for a later commit to submit them all
C14_FailedCommitKeepsState ==
    (last.op = "commit" /\ last.out = "Failed")
        => /\ Len(dstate[last.st].store) = last.data
           /\ DeletedKeys(dstate[last.st]) = last.keys

\* the tasks still hold the transactions they held, and no other
SameTasks ==
    /\ Len(tasks') = Len(tasks)
    /\ \A n \in 1..Len(tasks) : tasks'[n].trans = tasks[n].trans

\* C15: a batch fails as a whole.  When the lint, the transformation or the
\* header serialization of any row fails during a commit, the error is
\* returned before a transaction is handed to the pipe: no task is spawned
\* for it and no event of the batch reaches the log
C15_FailsAtomically ==
    [][(last'.op \in CommitOps /\ last'.fault # "none") =>
        /\ last'.out \in {"Failed", "Panic", "Swallowed"}
        /\ last'.trans = NoTrans
        /\ SameTasks
        /\ log' = log /\ primary' = primary /\ secondary' = secondary
    ]_vars

\* a commit of staged rows has just failed on a lint while an event was built
C15_Witness ==
    /\ last.op = "commit" /\ last.out = "Failed" /\ last.fault = "lint_event"
    /\ last.data >= 1

\* C16: the scope decides what a commit waits for.  With scope None the
\* transaction has no result channel and commit returns Ok without waiting,
\* its transaction still with the spawned task.  With scope Local or Full the
\* transaction has a result channel, and commit returns Ok only after the
\* events were taken and success came back on it, and an error when an error
\* came back or the channel was closed without a result
C16_ScopePolicy ==
    [][(BatchSent /\ last'.op = "commit") =>
        /\ \E i \in DioIds : dio[i].st = last'.st /\ dio[i].scope = last'.trans.scope
        /\ last'.trans.scope = "None" =>
              /\ ~last'.trans.result
              /\ last'.out = "Queued"
              /\ tasks' = Append(tasks, tasks'[Len(tasks')])
              /\ tasks'[Len(tasks')].trans = last'.trans
              /\ log' = log
        /\ last'.trans.scope \in {"Local", "Full"} =>
              /\ last'.trans.result
              /\ tasks' = tasks
              /\ last'.res = "Ok" =>
                    (last'.out = "Fed" /\ log' = log \o last'.trans.events)
              /\ last'.res \in {"Err", "Closed"} =>
                    (last'.out \in CommitErrors /\ log' = log)
    ]_vars

\* a commit of scope Local or Full has just returned the error that came back
\* on its result channel, while a transaction of scope None, without a result
\* channel, is still with its task
C16_Witness ==
    /\ last.op = "commit" /\ last.out = "Rejected" /\ last.res = "Err"
    /\ last.trans.result
    /\ tasks # << >> /\ ~tasks[1].trans.result

\* C17: two transactions committed by the same DIO reach the pipe, and so the
\* log, in the order of the two commit calls, whatever the scope: no task
\* feeds its transaction while a task spawned by an earlier commit of the
\* same DIO has yet to feed its own
C17_CommitOrder ==
    last.op = "feed" => last.out # "Overtook"

\* C18: the commit that Drop for Dio runs never fails in silence: in every
\* build, with debug assertions or without, a commit error at the drop is
\* made known and not let go
C18_DropNeverSwallows ==
    last.op = "dio_drop" => last.out # "Swallowed"

\* the keys of the rows that children returned
ReturnedKeys == {last.ret[n].key : n \in 1..Len(last.ret)}

\* C19: children(parent, cid) is the union of the chain's secondary index and
\* of the collection staged in the DIO: a child staged in this DIO under the
\* parent, unlocked, not deleted and not yet committed, is among the rows
\* returned, also when the chain's secondary index has no entry for the parent
C19_ChildrenUnion ==
    (last.op = "children" /\ last.out = "Ok")
        => \A k \in Keys :
             (/\ SeqHas(dstate[last.st].cache_store_secondary[last.key], k)
              /\ dstate[last.st].cache_store_primary[k] # NoRow
              /\ dstate[last.st].deleted[k] = NoRow)
                => k \in ReturnedKeys

\* what a Dio opened now gets from children of the parent
ChildrenAfresh == Dio_children(DioState_new, ParentKey)

\* how often key k is among the rows a Dio opened now gets from children
TimesAfresh(k) ==
    Cardinality({n \in 1..Len(ChildrenAfresh.ret) : ChildrenAfresh.ret[n].key = k})

\* the latest event of key k on the log is a write of the row under parent p
DataLatest(k, p) ==
    \E n \in 1..Len(log) :
        /\ log[n].kind = "Data" /\ log[n].key = k /\ log[n].tree = p
        /\ \A m \in (n + 1)..Len(log) : log[m].key # k

TimesReturned(k) == Cardinality({n \in 1..Len(last.ret) : last.ret[n].key = k})

\* C21: the list that Dio::children returns holds each primary key at most
\* once, whatever the chain's secondary index lists (a key more than once
\* included), whatever the load cache holds and whatever is staged (a key
\* several times included)
C21_NoDuplicates ==
    (last.op = "children" /\ last.out = "Ok") => \A k \in Keys : TimesReturned(k) <= 1

\* C22, as first stated: Dio::children never returns a row whose key is in
\* the deleted set of the DIO, and a deleted candidate key is passed over
\* without a word: it never makes the call fail
C22_DeletedNeverReturned ==
    last.op = "children" =>
        /\ last.out = "Ok" =>
             \A n \in 1..Len(last.ret) : dstate[last.st].deleted[last.ret[n].key] = NoRow
        /\ last.out = "ObjectStillLocked" => dstate[last.st].deleted[last.data] = NoRow

\* C22: Dio::children returns no row whose key is in the deleted set of the
\* DIO unless the key was staged again after it was deleted; a deleted
\* candidate key that is neither staged nor locked is passed over, and the
\* call fails on a candidate only when its key is locked
C22_DeletedUnlessStaged ==
    last.op = "children" =>
        /\ last.out = "Ok" =>
             \A n \in 1..Len(last.ret) :
                dstate[last.st].deleted[last.ret[n].key] # NoRow
                    => dstate[last.st].cache_store_primary[last.ret[n].key] # NoRow
        /\ last.out = "ObjectStillLocked" => last.data \in dstate[last.st].locked

\* children has just passed over a key that the chain lists under the parent
\* and that the DIO deleted
C22_Witness ==
    /\ last.op = "children" /\ last.out = "Ok"
    /\ \E k \in Keys :
        /\ SeqHas(secondary[last.key], k)
        /\ primary[k] # 0
        /\ dstate[last.st].deleted[k] # NoRow
        /\ k \notin ReturnedKeys

\* what a Dio opened on the chain as a replay of the log leaves it gets from
\* load(k)
LoadReplayed(k) ==
    IF Chain_replay(log).primary[k] = 0 THEN LoadError("NotFound")
    ELSE LoadOk(Row_from_event(log[Chain_replay(log).primary[k]]), "chain")

-----------------------------------------------------------------------------
(* Read authorization and sessions *)

\* the fault of a commit through the Dio i: data_as_underlay fails on a staged
\* row that the session of the Dio holds no read key for
SealFault(i) ==
    LET st == dstate[dio[i].st].store
    IN IF \A n \in 1..Len(st) : CanRead(dio[i].session, st[n].auth)
       THEN "none" ELSE "lint_event"

\* one row written, put under a read authorization, committed and loaded
\* through Dios of any session, over a fresh DioState or over that of a Dao
NextCrypt ==
    \/ (Referenced(dio, dao) = {} /\ \E session \in Sessions : Chain_dio_ext(session, "Local"))
    \/ \E h \in DaoIds, session \in Sessions : Chain_dio_for_dao(h, session, "Local")
    \/ (nextVal = 1 /\ \E i \in DioIds : Dio_store_ext(i, ConcurrentKey))
    \/ \E h \in DaoIds, auth \in SUBSET ReadKeys :
          dao[h].fresh /\ dao[h].row.auth = {} /\ Dao_auth_mut(h, auth)
    \/ \E h \in DaoIds : Dao_drop(h)
    \/ \E i \in DioIds : Dio_load_op(i, ConcurrentKey)
    \/ \E i \in DioIds :
          /\ dio[i].st # 0 /\ CommitFitsIn(dio[i].st, FALSE, SoloLog)
          /\ Dio_commit(i, SealFault(i), FALSE, "Ok")
    \/ \E i \in DioIds :
          /\ dio[i].st # 0 /\ CommitFitsIn(dio[i].st, FALSE, SoloLog)
          /\ Dio_drop(i, SealFault(i), FALSE, "Ok", "debug")

SpecCrypt == Init /\ [][NextCrypt]_vars

\* the chain holds a row of the key under a read restriction
Restricted(k) == primary[k] # 0 /\ log[primary[k]].auth # {}

\* C24: a row committed under the read authorization H is never returned by a
\* load through a session that holds no read key whose hash is in H
C24_NoKeyNoData ==
    (last.op = "load" /\ Restricted(last.key)
        /\ last.session \cap log[primary[last.key]].auth = {})
    => last.out # "Ok"

\* the round trip through the chain: a load that reaches the chain returns the
\* data that was sealed into the event when the session holds a read key whose
\* hash is in H, and fails with MissingReadKey when it holds none
ChainRoundTrip ==
    [][ (last'.op = "load" /\ last' # last /\ Restricted(last'.key)
            /\ Dio_load(dstate[last'.st], last'.key).src = "chain")
        => LET evt == log[primary[last'.key]]
           IN IF last'.session \cap evt.auth # {}
              THEN /\ last'.out = "Ok"
                   /\ last'.data <= MaxWrites
                   /\ evt = DataEvent([key |-> last'.key, data |-> last'.data,
                                       tree |-> evt.tree, auth |-> evt.auth])
                   /\ evt.data # last'.data
              ELSE last'.out = "MissingReadKey" ]_vars

\* a restricted row came back from the chain through a session that holds
\* one of its read keys
ChainRoundTripDone ==
    /\ last.op = "load" /\ last.src = "chain" /\ last.out = "Ok"
    /\ Restricted(last.key)
    /\ last.session \cap log[primary[last.key]].auth # {}
    /\ last.session # log[primary[last.key]].auth

\* a load through a session without the read key was turned down
ChainDenied == last.op = "load" /\ last.out = "MissingReadKey"

-----------------------------------------------------------------------------
(* The timestamp enforcer *)

\* the last operation validated an event that carries the timestamp t
Validated(t) == last.op = "validate" /\ last.meta.stamps = <<t>>

\* C25: the validator lets an event that carries the timestamp t pass iff
\* cursor - tolerance <= t <= now + ntp_offset + tolerance at the time of the
\* validation, and rejects every other t with Time(OutOfBounds)
C25_TimestampBounds ==
    \A t \in Timestamps :
        Validated(t) =>
            IF enforcer.cursor - enforcer.tolerance <= t
               /\ t <= now + enforcer.ntp_result.offset + enforcer.tolerance
            THEN last.out = "Abstain"
            ELSE last.out = "OutOfBounds"

\* an event stamped later than the corrected clock, at the very end of the
\* interval, has passed
C25_Witness ==
    /\ Validated(now + enforcer.ntp_result.offset + enforcer.tolerance)
    /\ last.out = "Abstain"
    /\ enforcer.cursor > enforcer.tolerance

\* C26 as stated: an event stamped now - 2 * tolerance is rejected with
\* Time(OutOfBounds) in every state of the enforcer
C26_AlwaysRejected ==
    Validated(now - 2 * enforcer.tolerance) => last.out = "OutOfBounds"

\* C26, amended: an event stamped now - 2 * tolerance is rejected with
\* Time(OutOfBounds) iff the cursor has passed now - tolerance or the offset
\* lies below -3 * tolerance, and passes otherwise, as in a fresh enforcer;
\* the validation changes neither the log nor the enforcer
C26_RejectedPastCursor ==
    [][ (last'.op = "validate" /\ last'.meta.stamps = <<now - 2 * enforcer.tolerance>>)
        => /\ last'.out = "OutOfBounds"
                <=> \/ enforcer.cursor > now - enforcer.tolerance
                    \/ enforcer.ntp_result.offset < 0 - 3 * enforcer.tolerance
           /\ last'.out \in {"OutOfBounds", "Abstain"}
           /\ UNCHANGED <<log, primary, secondary, enforcer>> ]_vars

\* an event stamped now - 2 * tolerance was rejected by an enforcer whose
\* offset is nil and whose cursor was fed past now - tolerance
C26_Witness ==
    /\ Validated(now - 2 * enforcer.tolerance)
    /\ last.out = "OutOfBounds"
    /\ enforcer.ntp_result.offset = 0
    /\ enforcer.cursor > now - enforcer.tolerance

\* C27: the cursor never decreases, it is the largest of its first value and
\* of the timestamps fed so far, and an event without Timestamp leaves it alone
C27_CursorMonotonic ==
    [][ /\ enforcer'.cursor >= enforcer.cursor
        /\ enforcer'.cursor = Max(enforcer'.tolerance, seen'.fed)
        /\ (last'.op = "feed_time" /\ last'.meta.stamps = << >>)
              => enforcer'.cursor = enforcer.cursor ]_vars

\* an event older than the cursor was fed to an enforcer that had been fed
\* before, and the cursor stayed
C27_Witness ==
    /\ last.op = "feed_time" /\ last.meta.stamps # << >>
    /\ Head(last.meta.stamps) < enforcer.cursor
    /\ Head(last.meta.stamps) > enforcer.tolerance
    /\ enforcer.cursor = seen.fed

\* C28: an event without Timestamp is rejected with Time(NoTimestamp) iff its
\* metadata needs a signature and the validator abstains otherwise; the
\* validator allows no event
C28_NoTimestamp ==
    last.op = "validate" =>
        /\ last.out \in {"Abstain", "NoTimestamp", "OutOfBounds"}
        /\ last.meta.stamps = << >> =>
              IF needs_signature(last.meta)
              THEN last.out = "NoTimestamp" ELSE last.out = "Abstain"

\* an event without Timestamp whose metadata restricts the writers was rejected
C28_Witness ==
    /\ last.op = "validate" /\ last.meta.stamps = << >>
    /\ last.meta.allow_write # {}
    /\ last.out = "NoTimestamp"

\* C29: the background thread replaces the cached result only by one whose
\* round trip is within 50 ms of the smallest round trip reported since the
\* enforcer was made
C29_WithinBestPing ==
    (last.op = "bt_body" /\ last.out = "Replaced")
        => last.data <= last.best + PingSlack

\* C30: once the enforcer is dropped the exit flag is set and the background
\* thread ends up past its loop; past its loop it makes no query and changes
\* nothing
C30_ThreadExits ==
    /\ [](~enforcer.live => enforcer.bt_exit)
    /\ (~enforcer.live) ~> (bt.pc = "done")
    /\ [][ bt.pc = "done" => (bt' = bt /\ enforcer'.ntp_result = enforcer.ntp_result) ]_vars

\* the thread has left its loop after a query, the enforcer being dropped
C30_Witness ==
    /\ ~enforcer.live /\ bt.pc = "done"
    /\ last.op = "bt_test" /\ last.out = "done"
    /\ seen.ping < bt.best_ping

\* C39: the cursor is never smaller than the tolerance, so that the lower
\* bound cursor - tolerance of the validator is never negative and its
\* subtraction never underflows
C39_CursorAboveTolerance ==
    enforcer.live =>
        /\ enforcer.cursor >= enforcer.tolerance
        /\ enforcer.cursor - enforcer.tolerance >= 0
        /\ last.op = "validate" => last.out # "Panic"

\* an event older than the tolerance was fed to a fresh enforcer, whose
\* cursor stayed at the tolerance, and an event was validated from there
C39_Witness ==
    /\ last.op = "validate" /\ last.meta.stamps = <<0>> /\ last.out = "Abstain"
    /\ enforcer.cursor = enforcer.tolerance
    /\ seen.fed > 0 /\ seen.fed < enforcer.tolerance

-----------------------------------------------------------------------------
(* Keys locked through the pipe *)

\* one Dio at a time whose Daos lock their keys through the pipe; the Dio is
\* committed and dropped with or without rows staged
NextUnlock ==
    \/ (Referenced(dio, dao) = {} /\ Chain_dio_ext(TestSession, "Local"))
    \/ (nextVal <= SoloWrites /\ \E i \in DioIds, k \in Keys : Dio_store_ext(i, k))
    \/ \E i \in DioIds : Dio_load_op(i, ConcurrentKey)
    \/ \E h \in DaoIds : Dao_try_lock(h)
    \/ \E h \in DaoIds : Dao_drop(h)
    \/ \E i \in DioIds :
          /\ dio[i].st # 0 /\ CommitFitsIn(dio[i].st, FALSE, SoloLog)
          /\ Dio_commit(i, "none", FALSE, "Ok")
    \/ \E i \in DioIds :
          /\ dio[i].st # 0 /\ CommitFitsIn(dio[i].st, FALSE, SoloLog)
          /\ Dio_drop(i, "none", FALSE, "Ok", "debug")
    \/ \E n \in 1..NumKeys : Unlock_run(n)

SpecUnlock == Init /\ [][NextUnlock]_vars

\* the keys the spawned tasks are about to unlock
Unlocking(tk) == UNION {tk[n].keys : n \in 1..Len(tk)}

\* C36: when a Dio commits or is dropped, every key of its pipe_unlock set is
\* handed to pipe.unlock, also when nothing is staged and nothing deleted
C36_UnlockedAtCommit ==
    [][ (last'.op \in {"commit", "dio_drop"} /\ last' # last)
        => dstate[last'.st].pipe_unlock \subseteq Unlocking(unlocks') ]_vars

\* C37: a commit of a Dio with nothing staged and nothing deleted returns Ok,
\* sends nothing to the pipe and leaves every field of the DioState as it was
C37_EmptyCommit ==
    [][ (/\ last'.op = "commit"
         /\ dstate[last'.st].store = << >>
         /\ \A k \in Keys : dstate[last'.st].deleted[k] = NoRow)
        => /\ last'.out = "Skipped"
           /\ last'.trans = NoTrans
           /\ dstate' = dstate
           /\ tasks' = tasks
           /\ log' = log /\ primary' = primary /\ secondary' = secondary ]_vars

\* a Dio with a locked key and a key recorded in pipe_unlock, but nothing
\* staged, was committed
C37_Witness ==
    /\ last.op = "commit" /\ last.out = "Skipped"
    /\ dstate[last.st].pipe_unlock # {}
    /\ dstate[last.st].locked # {}
    /\ log # << >>

\* the candidate children of the last call of children: the keys the chain's
\* secondary index lists and the keys staged in the Dio under the parent
ChainCandidate(k) == SeqHas(secondary[last.key], k)

LocalCandidate(k) == SeqHas(dstate[last.st].cache_store_secondary[last.key], k)

\* C38: when a candidate child key is locked in the Dio, children fails with
\* ObjectStillLocked and returns no row, whether the key comes from the chain
\* or from the staged collection and whether or not it is deleted as well
C38_LockedFails ==
    last.op = "children" =>
        \A k \in Keys :
            ((ChainCandidate(k) \/ LocalCandidate(k)) /\ k \in dstate[last.st].locked)
                => (last.out = "ObjectStillLocked" /\ last.ret = << >>)

-----------------------------------------------------------------------------
(* Dio::load across its await points: the DioState lock is let go before the
   chain is asked, and load_from_event takes it again to fill the load cache *)

\* Dio::load up to lookup_primary: the checks under the lock of the DioState
\* sent it to the chain, and the leaf the index gave is in hand
Dio_load_begin(i, k) ==
    /\ dio[i].st # 0 /\ dio[i].pend = 0
    /\ Dio_load(dstate[dio[i].st], k).src = "chain"
    /\ dio' = [dio EXCEPT ![i].pend = lookup_primary(k)]
    /\ last' = [Op("load_begin", dio[i].st, k, "Pending", 0) EXCEPT
                    !.session = dio[i].session]
    /\ UNCHANGED <<farVars, unlocks, log, primary, secondary, dstate, dao, nextVal, deletes, delorder, tasks>>

\* Dio::load_from_event: the row of the event enters the load cache
Dio_load_insert(ds, row) == [ds EXCEPT !.cache_load[row.key] = row]

\* Dio::load_from_entry and Dio::load_from_event: the event of the leaf is
\* read, decrypted with the session, put in the load cache and returned
Dio_load_finish(i) ==
    /\ dio[i].st # 0 /\ dio[i].pend # 0
    /\ LET s == dio[i].st
           evt == log[dio[i].pend]
           ok == CanRead(dio[i].session, evt.auth)
           row == Row_from_event(evt)
       IN /\ dstate' = [dstate EXCEPT ![s] = IF ok THEN Dio_load_insert(@, row) ELSE @]
          /\ dao' = IF ok /\ FreeDaos # {}
                    THEN [dao EXCEPT ![Lowest(FreeDaos)] = NewDao(s, row)]
                    ELSE dao
          /\ last' = [Op("load_from_event", s, evt.key,
                         IF ok THEN "Ok" ELSE "MissingReadKey",
                         IF ok THEN row.data ELSE 0) EXCEPT
                          !.session = dio[i].session, !.src = "chain"]
    /\ dio' = [dio EXCEPT ![i].pend = 0]
    /\ UNCHANGED <<farVars, unlocks, log, primary, secondary, nextVal, deletes, delorder, tasks>>

\* a Dio in the middle of a load is borrowed and takes no other call
Idle(i) == dio[i].pend = 0

\* two transactional contexts over one DioState after one commit to the chain,
\* one of them loading from the chain while rows are stored and flushed
\* through the other
NextLoadRace ==
    \/ (log = << >> /\ Chain_dio_ext(TestSession, "Local"))
    \/ \E h \in DaoIds : Chain_dio_for_dao(h, TestSession, "Local")
    \/ \E i \in DioIds, k \in Keys : Idle(i) /\ Dio_store_ext(i, k)
    \/ \E i \in DioIds : Dio_load_begin(i, ConcurrentKey)
    \/ \E i \in DioIds : Dio_load_finish(i)
    \/ \E h \in DaoIds : Dao_drop(h)
    \/ \E i \in DioIds :
          /\ Idle(i) /\ dio[i].st # 0 /\ log = << >>
          /\ CommitFitsIn(dio[i].st, FALSE, SoloLog)
          /\ Dio_drop(i, "none", FALSE, "Ok", "debug")

SpecLoadRace == Init /\ [][NextLoadRace]_vars

\* C35: in every state of every DioState no primary key is at once in
\* cache_store_primary and in cache_load, loads from the chain that end after
\* the key was staged through the shared DioState included
C35_StagedNotCached ==
    \A s \in StateIds, k \in Keys :
        ~(dstate[s].cache_store_primary[k] # NoRow /\ dstate[s].cache_load[k] # NoRow)

-----------------------------------------------------------------------------
(* comms::client: mesh_connect_to and the connect loop of mesh_connect_prepare *)

\* the longest connect_timeout a caller passes, in seconds
MaxTimeout == 30

\* Duration::from_millis(100), the first delay
FirstBackoff == 100

\* Duration::from_secs(10), the cap of the delay, in milliseconds
BackoffCap == 10000

\* exp_backoff *= 2
BackoffFactor == 2

ConnectTimeouts == {1000, MaxTimeout * 1000}

\* the kinds of std::io::Error TcpStream::connect answers with
RetryKinds == {"ConnectionRefused", "ConnectionReset", "ConnectionAborted"}
ErrorKinds == RetryKinds \cup {"TimedOut", "PermissionDenied"}

\* the guard of the match arm that every failed connect sleeps and goes round
ConnectGuard_retry_all(kind, fail_fast) == "retry"

\* the guard of the match arm on TcpStream::connect: bail with Refused, go
\* round after a sleep, or fall to the arm that passes the answer on
ConnectGuard(kind, fail_fast) ==
    CASE kind = "ConnectionRefused" -> IF fail_fast THEN "bail" ELSE "retry"
      [] kind = "ConnectionReset" -> "retry"
      [] kind = "ConnectionAborted" -> "retry"
      [] OTHER -> "pass"

\* the delay that doubles without a cap
NextBackoff_uncapped(b) == b * BackoffFactor

\* exp_backoff *= 2, cut to ten seconds
NextBackoff(b) ==
    IF b * BackoffFactor > BackoffCap THEN BackoffCap ELSE b * BackoffFactor

\* mesh_connect_to: the connect loop starts under tokio::time::timeout
Mesh_connect_to(fail_fast, timeout) ==
    /\ conn.pc = "none"
    /\ conn' = [NoConn EXCEPT !.pc = "connect", !.fail_fast = fail_fast,
                              !.timeout = timeout, !.exp_backoff = FirstBackoff]
    /\ UNCHANGED <<dioVars, last, timeVars, svc, proc>>

\* TcpStream::connect(addr).await and the match on its answer
Tcp_connect(answer) ==
    /\ conn.pc = "connect"
    /\ LET g == IF answer = "Ok" THEN "pass" ELSE ConnectGuard(answer, conn.fail_fast)
       IN conn' = [conn EXCEPT
                     !.tries = @ + 1,
                     !.err = answer,
                     !.pc = IF g = "retry" THEN "sleep"
                            ELSE IF g = "pass" /\ answer = "Ok" THEN "hello"
                            ELSE "done",
                     !.res = IF g = "bail" THEN "Refused"
                             ELSE IF g = "pass" /\ answer # "Ok" THEN "IO"
                             ELSE @]
    /\ UNCHANGED <<dioVars, last, timeVars, svc, proc>>

\* tokio::time::sleep(exp_backoff).await that ends before the caller's
\* timeout, the delay for the next round, and continue
Backoff_sleep ==
    /\ conn.pc = "sleep"
    /\ conn.elapsed + conn.exp_backoff < conn.timeout
    /\ conn' = [conn EXCEPT !.pc = "connect",
                            !.elapsed = @ + conn.exp_backoff,
                            !.sleeps = @ + 1,
                            !.exp_backoff = NextBackoff(@)]
    /\ UNCHANGED <<dioVars, last, timeVars, svc, proc>>

\* tokio::time::timeout(timeout, worker_connect): the time of the caller runs
\* out while the loop waits in a connect, a sleep or the hello exchange
Connect_timeout ==
    /\ conn.pc \in {"connect", "sleep", "hello"}
    /\ conn' = [conn EXCEPT !.pc = "done", !.res = "Timeout", !.elapsed = conn.timeout]
    /\ UNCHANGED <<dioVars, last, timeVars, svc, proc>>

\* setup_tcp_stream, upgrade_client and mesh_hello_exchange_sender, each of
\* which returns its error from the loop; after them the loop returns Ok
Hello_exchange(ok) ==
    /\ conn.pc = "hello"
    /\ conn' = [conn EXCEPT !.pc = "done", !.res = IF ok THEN "Ok" ELSE "HelloFailed"]
    /\ UNCHANGED <<dioVars, last, timeVars, svc, proc>>

NextConn ==
    \/ \E f \in BOOLEAN, t \in ConnectTimeouts : Mesh_connect_to(f, t)
    \/ \E a \in ErrorKinds \cup {"Ok"} : Tcp_connect(a)
    \/ Backoff_sleep
    \/ Connect_timeout
    \/ \E ok \in BOOLEAN : Hello_exchange(ok)

SpecConn == Init /\ [][NextConn]_vars

\* C31: a failed TcpStream::connect is retried exactly when the error is
\* ConnectionReset, ConnectionAborted, or ConnectionRefused with fail_fast off;
\* ConnectionRefused with fail_fast on returns Refused at once and without a
\* sleep; any other error returns at once; a successful connect goes on to the
\* hello exchange and only that returns Ok
C31_ErrorClassification ==
    [][ (conn.pc = "connect" /\ conn'.tries = conn.tries + 1) =>
          LET e == conn'.err
              retried == conn'.pc = "sleep"
          IN /\ e # "Ok" =>
                   (retried <=> (e \in {"ConnectionReset", "ConnectionAborted"}
                                    \/ (e = "ConnectionRefused" /\ ~conn.fail_fast)))
             /\ (e = "ConnectionRefused" /\ conn.fail_fast) =>
                   (conn'.pc = "done" /\ conn'.res = "Refused"
                        /\ conn'.sleeps = conn.sleeps /\ conn'.elapsed = conn.elapsed)
             /\ (e \notin RetryKinds \cup {"Ok"}) =>
                   (conn'.pc = "done" /\ conn'.res = "IO" /\ conn'.sleeps = conn.sleeps)
             /\ e = "Ok" => (conn'.pc = "hello" /\ conn'.res = "none")
             /\ conn'.res # "Ok" ]_vars

\* C31 - witness: the loop was left with Refused under fail_fast after no sleep
C31_Witness ==
    /\ conn.pc = "done" /\ conn.res = "Refused" /\ conn.fail_fast
    /\ conn.err = "ConnectionRefused" /\ conn.sleeps = 0 /\ conn.tries = 1

\* C32: the delay starts at 100 ms, doubles after each retried failure up to
\* the cap of 10 s, so lies in [100 ms, 10 s] and never decreases; a sleep is
\* followed by another connect whatever the number of attempts made, or by the
\* caller's timeout
C32_BackoffBounds ==
    [][ /\ (conn.pc = "none" /\ conn'.pc # "none") => conn'.exp_backoff = 100
        /\ conn'.pc # "none" => (conn'.exp_backoff >= 100 /\ conn'.exp_backoff <= 10000)
        /\ conn.pc # "none" => conn'.exp_backoff >= conn.exp_backoff
        /\ conn.pc = "sleep" =>
             \/ /\ conn'.pc = "connect"
                /\ conn'.exp_backoff = IF 2 * conn.exp_backoff > 10000 THEN 10000
                                       ELSE 2 * conn.exp_backoff
             \/ (conn'.pc = "done" /\ conn'.res = "Timeout")
        /\ conn.pc # "sleep" => conn'.exp_backoff = conn.exp_backoff \/ conn.pc = "none" ]_vars

\* C32 - witness: the delay stands at the cap after eight retried failures and
\* the loop connects again
C32_Witness ==
    /\ conn.pc = "connect" /\ conn.exp_backoff = 10000 /\ conn.sleeps >= 8
    /\ conn.tries = conn.sleeps

-----------------------------------------------------------------------------
(* auth: AuthService::process_login *)

\* the emails and the passwords of the test
NumEmails == 2
NumSecrets == 2
\* the latest time a lock ends and a login comes, in seconds
MaxUntil == 2

Emails == 1..NumEmails
Secrets == 1..NumSecrets
\* the authenticator codes a request may carry: the one that verifies against
\* the secret of the Sudo row at the time, and one that does not
Codes == {1, 2}
Times == 0..MaxUntil

\* the read keys of the master session, in the order read_keys() yields them
MasterSessions == {<< >>, <<1>>, <<2, 1>>}

\* AuthService::compute_super_key: None (the empty sequence) without a master
\* key, else the key seeded by the hash of the first master key and the
\* secret, named by the two in a row
compute_super_key(master, secret) ==
    IF master = << >> THEN << >> ELSE <<Head(master)>> \o secret

\* the key a password gives under a master key, and the key that key gives
SuperKeys == {<<m, s>> : m \in 1..2, s \in Secrets}
SuperSuperKeys == {<<m, m, s>> : m \in 1..2, s \in {1}}

NoUser == [present |-> FALSE]

\* a User row: the key it is encrypted with, its status, its keys and what its
\* sudo reference loads to (nothing, a dangling key, or a Sudo row encrypted
\* with a key and holding the secret that the valid code derives from)
UserRows ==
    [present : {TRUE}, auth : SuperKeys,
     status : {"Nominal", "Unverified", "Locked"}, until : Times,
     sudo : {"unset", "dangling", "row"}, sudo_auth : SuperSuperKeys, code : {1}]

UserOf(users, email) == users[email]

LoginRequests == [email : Emails, secret : {<<s>> : s \in Secrets}, code : {0} \cup Codes]

\* the keys of a user, each named by its role and the user
UserKey(role, email) == [role |-> role, email |-> email]

NoKey == [role |-> "none", email |-> 0]

LoginFailed(what, email, duration) ==
    [out |-> what, email |-> email, duration |-> duration,
     nominal_read |-> NoKey, nominal_write |-> NoKey,
     sudo_read |-> NoKey, sudo_write |-> NoKey, sudo |-> FALSE]

LoginResponse(email, sudo) ==
    [out |-> "Ok", email |-> email, duration |-> 0,
     nominal_read |-> UserKey("nominal_read", email),
     nominal_write |-> UserKey("nominal_write", email),
     sudo_read |-> UserKey("sudo_read", email),
     sudo_write |-> UserKey("sudo_write", email), sudo |-> sudo]

\* dio.load::<User>(&user_key) under the super session: the index is asked
\* first, then the row is decrypted with the read keys of the session
User_load(users, email, session) ==
    IF ~users[email].present THEN "NotFound"
    ELSE IF users[email].auth \notin session THEN "MissingReadKey"
    ELSE "Ok"

\* user.sudo.load() under the super session
Sudo_load(user, session) ==
    IF user.sudo = "unset" THEN "None"
    ELSE IF user.sudo = "dangling" THEN "NotFound"
    ELSE IF user.sudo_auth \notin session THEN "MissingReadKey"
    ELSE "Some"

\* the match on user.status that takes every lock for running
Status_check_locked_always(user, email, utc_now) ==
    IF user.status = "Locked"
        THEN LoginFailed("AccountLocked", email, user.until - utc_now)
    ELSE IF user.status = "Unverified" THEN LoginFailed("Unverified", email, 0)
    ELSE LoginFailed("pass", email, 0)

\* the match on user.status: a lock that has not run out and an unverified
\* account deny the login
Status_check(user, email, utc_now) ==
    IF user.status = "Locked" /\ user.until > utc_now
        THEN LoginFailed("AccountLocked", email, user.until - utc_now)
    ELSE IF user.status = "Unverified" THEN LoginFailed("Unverified", email, 0)
    ELSE LoginFailed("pass", email, 0)

\* the branch of a request with a code: the Sudo row is loaded and the code is
\* verified against its secret
Sudo_check(user, request, session) ==
    LET l == Sudo_load(user, session)
    IN IF l = "NotFound" \/ l = "None" THEN LoginFailed("UserNotFound", request.email, 0)
       ELSE IF l = "MissingReadKey" THEN LoginFailed("WrongPasswordOrCode", request.email, 0)
       ELSE IF request.code # user.code THEN LoginFailed("WrongPasswordOrCode", request.email, 0)
       ELSE LoginResponse(request.email, TRUE)

\* AuthService::process_login
process_login(master, users, request, utc_now, opened) ==
    LET super_key == compute_super_key(master, request.secret)
        super_super_key == compute_super_key(master, super_key)
        super_session == {super_key} \cup
                         (IF request.code # 0 THEN {super_super_key} ELSE {})
        user == users[request.email]
        loaded == User_load(users, request.email, super_session)
    IN IF super_key = << >> THEN LoginFailed("NoMasterKey", request.email, 0)
       ELSE IF ~opened THEN LoginFailed("InternalError", request.email, 0)
       ELSE IF loaded = "NotFound" THEN LoginFailed("UserNotFound", request.email, 0)
       ELSE IF loaded = "MissingReadKey"
           THEN LoginFailed("WrongPasswordOrCode", request.email, 0)
       ELSE IF Status_check(user, request.email, utc_now).out # "pass"
           THEN Status_check(user, request.email, utc_now)
       ELSE IF request.code # 0 THEN Sudo_check(user, request, super_session)
       ELSE LoginResponse(request.email, FALSE)

\* no chain is open, no Dio was made and no enforcer runs
NoChain ==
    /\ log = << >>
    /\ primary = NoIndex.primary
    /\ secondary = NoIndex.secondary
    /\ dstate = [s \in StateIds |-> DioState_new]
    /\ dio = [i \in DioIds |-> NoDio]
    /\ dao = [h \in DaoIds |-> NoDao]
    /\ nextVal = 1
    /\ deletes = [s \in StateIds |-> NoDeletes]
    /\ delorder = [s \in StateIds |-> << >>]
    /\ tasks = << >>
    /\ unlocks = << >>
    /\ last = Op("init", 0, 0, "none", 0)
    /\ NoTime

\* a login request reaches the service at some time; registry.open gives the
\* chain of the user or fails
Svc_login(request, at, opened) ==
    /\ svc.op # "none"
    /\ svc' = [svc EXCEPT !.op = "login", !.req = request, !.at = at, !.opened = opened,
                          !.res = process_login(svc.master, svc.users, request, at, opened)]
    /\ UNCHANGED <<dioVars, last, timeVars, conn, proc>>

\* the service over a master session and a chain that holds at most the User
\* row of the first email
InitSvc ==
    /\ NoChain
    /\ conn = NoConn /\ proc = NoProc
    /\ \E master \in MasterSessions, row \in UserRows \cup {NoUser} :
          svc = [op |-> "new", master |-> master,
                 users |-> [e \in Emails |-> IF e = 1 THEN row ELSE NoUser],
                 req |-> [email |-> 1, secret |-> <<1>>, code |-> 0], at |-> 0,
                 opened |-> TRUE, res |-> LoginFailed("none", 1, 0)]

NextSvc ==
    \E request \in LoginRequests, at \in Times, opened \in BOOLEAN :
        Svc_login(request, at, opened)

SpecSvc == InitSvc /\ [][NextSvc]_vars

\* the User row the last request asked for
Asked == svc.users[svc.req.email]

\* C33: process_login answers NoMasterKey when the master session has no read
\* key; else UserNotFound when the chain has no User row of the email; else
\* WrongPasswordOrCode when the row cannot be read with the key of the
\* password; else AccountLocked with the time left when the status is
\* Locked(until) and until is after now; else Unverified with the email; else,
\* without a code, Ok with the nominal read and write keys of the user; and no
\* failure carries a key
C33_LoginPrecedence ==
    (svc.op = "login" /\ (svc.opened \/ svc.master = << >>)) =>
        /\ IF svc.master = << >> THEN svc.res.out = "NoMasterKey"
           ELSE IF ~Asked.present
               THEN svc.res.out = "UserNotFound" /\ svc.res.email = svc.req.email
           ELSE IF Asked.auth # <<Head(svc.master), svc.req.secret[1]>>
               THEN svc.res.out = "WrongPasswordOrCode"
           ELSE IF Asked.status = "Locked" /\ Asked.until > svc.at
               THEN svc.res.out = "AccountLocked"
                    /\ svc.res.duration = Asked.until - svc.at
           ELSE IF Asked.status = "Unverified"
               THEN svc.res.out = "Unverified" /\ svc.res.email = svc.req.email
           ELSE svc.req.code = 0 =>
                    /\ svc.res.out = "Ok"
                    /\ svc.res.nominal_read = [role |-> "nominal_read", email |-> svc.req.email]
                    /\ svc.res.nominal_write = [role |-> "nominal_write", email |-> svc.req.email]
        /\ svc.res.out # "Ok" =>
              /\ svc.res.nominal_read.role = "none" /\ svc.res.nominal_write.role = "none"
              /\ svc.res.sudo_read.role = "none" /\ svc.res.sudo_write.role = "none"

\* C33 - witness: a user whose lock has run out logs in without a code and is
\* given the nominal keys
C33_Witness ==
    /\ svc.op = "login" /\ svc.opened /\ svc.req.code = 0
    /\ Asked.present /\ Asked.status = "Locked" /\ Asked.until <= svc.at
    /\ svc.res.out = "Ok" /\ svc.res.nominal_read = [role |-> "nominal_read", email |-> svc.req.email]

-----------------------------------------------------------------------------
(* auth: AuthService::process_group_remove *)

\* the groups of the test
NumGroups == 2

Groups == 1..NumGroups

\* PrimaryKey::from(request.group) and PrimaryKey::from("advert:{group}"): the
\* key of a name, and of the name behind the prefix
GroupKey(g) == [prefix |-> "", name |-> g]
AdvertKey(g) == [prefix |-> "advert:", name |-> g]

GroupChainKeys == {GroupKey(g) : g \in Groups} \cup {AdvertKey(g) : g \in Groups}

\* dio.load::<Group>(&group_key) under the super session
Group_load(rows, key, readable) ==
    IF key \notin rows THEN "NotFound"
    ELSE IF ~readable THEN "MissingReadKey"
    ELSE "Ok"

\* the key handed to try_load::<Advert> is the key derived from the advert name
Advert_lookup_key_advert(g) == AdvertKey(g)

\* the key handed to try_load::<Advert>: group_key
Advert_lookup_key(g) == GroupKey(g)

\* AuthService::process_group_remove over the rows of the chain; answer is
\* what try_load gives for the key it is asked, which the Dio has just deleted:
\* nothing, a row, or an error
process_group_remove(rows, g, readable, answer) ==
    LET loaded == Group_load(rows, GroupKey(g), readable)
        asked == Advert_lookup_key(g)
        found == IF asked = GroupKey(g) THEN answer
                 ELSE IF asked \in rows THEN "Some" ELSE "None"
        deleted == {GroupKey(g)} \cup (IF found = "Some" THEN {asked} ELSE {})
    IN IF loaded = "NotFound"
           THEN [out |-> "GroupNotFound", rows |-> rows, deleted |-> {}, asked |-> {}]
       ELSE IF loaded = "MissingReadKey"
           THEN [out |-> "NoMasterKey", rows |-> rows, deleted |-> {}, asked |-> {}]
       ELSE IF found = "Err"
           THEN [out |-> "InternalError", rows |-> rows, deleted |-> {}, asked |-> {asked}]
       ELSE [out |-> "Ok", rows |-> rows \ deleted, deleted |-> deleted, asked |-> {asked}]

\* a request to remove a group; the service keeps, for the record, the rows of
\* the chain before and after, the keys asked of try_load and deleted, and
\* what the super session could read and try_load answered
Svc_group_remove(g, readable, answer) ==
    /\ svc.op # "none"
    /\ LET r == process_group_remove(svc.rows, g, readable, answer)
       IN svc' = [op |-> "group_remove", group |-> g, before |-> svc.rows,
                  rows |-> r.rows, out |-> r.out, deleted |-> r.deleted,
                  asked |-> r.asked, readable |-> readable, answer |-> answer]
    /\ UNCHANGED <<dioVars, last, timeVars, conn, proc>>

\* the service over a chain that holds any of the Group and Advert rows
InitGroups ==
    /\ NoChain
    /\ conn = NoConn /\ proc = NoProc
    /\ \E rows \in SUBSET GroupChainKeys :
          svc = [op |-> "new", group |-> 0, before |-> rows, rows |-> rows,
                 out |-> "none", deleted |-> {}, asked |-> {},
                 readable |-> TRUE, answer |-> "None"]

NextGroups ==
    \E g \in Groups, readable \in BOOLEAN, answer \in {"None", "Some", "Err"} :
        Svc_group_remove(g, readable, answer)

SpecGroups == InitGroups /\ [][NextGroups]_vars

\* C34: when process_group_remove removes a group whose Advert row exists
\* under the key of "advert:{group}", that row is loaded by the advert key and
\* deleted in the commit that deletes the Group row
C34_AdvertRemoved ==
    (svc.op = "group_remove" /\ svc.out = "Ok" /\ AdvertKey(svc.group) \in svc.before) =>
        /\ AdvertKey(svc.group) \in svc.asked
        /\ AdvertKey(svc.group) \in svc.deleted
        /\ GroupKey(svc.group) \in svc.deleted
        /\ AdvertKey(svc.group) \notin svc.rows

-----------------------------------------------------------------------------
(* tokterm: Process, its clones and the watch channel of its exit code *)

\* the clones of one Process, the original included
NumClones == 3
\* the exit codes passed to terminate, and the calls of terminate
NumExitCodes == 2
MaxTerminates == 2

Clones == 1..NumClones
ExitCodes == 1..NumExitCodes

\* Option<i32>: None is the empty sequence, Some(a) the sequence of a
None == << >>
Some(a) == <<a>>

\* what wait_for_exit returns: the code of Some(a), or ERR_PANIC for None
Returned(ret) ==
    IF ret = None THEN [panic |-> TRUE, code |-> 0]
    ELSE [panic |-> FALSE, code |-> ret[1]]

NotReturned == [panic |-> FALSE, code |-> 0]

\* a Process that was dropped or not made yet; of a live one: the version of
\* the channel its exit_rx has seen, where its wait_for_exit stands, ret, the
\* answer of changed(), and what the call returned
NoClone ==
    [alive |-> FALSE, seen |-> 0, pc |-> "idle", ret |-> None, state |-> "Ok",
     out |-> NotReturned]

\* every Process holds an exit_rx and, through the Arc, the exit_tx
Receivers(w) == {c \in Clones : w.p[c].alive}
SenderDropped(w) == \A c \in Clones : ~w.p[c].alive

\* watch::Sender::send that stores the value and wakes nobody
Watch_send_silent(w, v) ==
    IF Receivers(w) = {} THEN w
    ELSE [w EXCEPT !.value = v, !.sent = @ \cup {v[1]}]

\* watch::Sender::send: without a receiver the value is handed back; else it
\* is stored, the version moves on and the receivers are woken
Watch_send(w, v) ==
    IF Receivers(w) = {} THEN w
    ELSE [w EXCEPT !.value = v, !.version = @ + 1, !.sent = @ \cup {v[1]}]

\* Clone for Process: the pid, a clone of exit_rx, which has seen what the
\* original has seen, and the same exit_tx
Process_clone(c, d) ==
    /\ proc.pc = "run"
    /\ proc.p[c].alive /\ proc.p[c].pc \in {"idle", "done"}
    /\ ~proc.p[d].alive /\ d = Lowest(Clones \ Receivers(proc))
    /\ proc' = [proc EXCEPT !.p[d] = [NoClone EXCEPT !.alive = TRUE, !.seen = proc.p[c].seen]]
    /\ UNCHANGED <<dioVars, last, timeVars, conn, svc>>

\* a Process that no call borrows goes out of scope
Process_drop(c) ==
    /\ proc.pc = "run"
    /\ proc.p[c].alive /\ proc.p[c].pc \in {"idle", "done"}
    /\ proc' = [proc EXCEPT !.p[c] = NoClone]
    /\ UNCHANGED <<dioVars, last, timeVars, conn, svc>>

\* Process::terminate
Process_terminate(c, exit_code) ==
    /\ proc.pc = "run" /\ proc.version < MaxTerminates
    /\ proc.p[c].alive /\ proc.p[c].pc \in {"idle", "done"}
    /\ proc' = Watch_send(proc, Some(exit_code))
    /\ UNCHANGED <<dioVars, last, timeVars, conn, svc>>

\* Process::wait_for_exit up to the loop: the value of the channel is borrowed,
\* and a Some is returned at once
Wait_begin(c) ==
    /\ proc.pc = "run"
    /\ proc.p[c].alive /\ proc.p[c].pc = "idle"
    /\ proc' = [proc EXCEPT !.p[c].ret = proc.value,
                            !.p[c].pc = IF proc.value = None THEN "changed" ELSE "done",
                            !.p[c].out = IF proc.value = None THEN NotReturned
                                         ELSE Returned(proc.value)]
    /\ UNCHANGED <<dioVars, last, timeVars, conn, svc>>

\* self.exit_rx.changed().await: Ok once the version of the channel is not the
\* one seen, Err once the sender is gone; till then the call waits
Wait_changed(c) ==
    /\ proc.pc = "run"
    /\ proc.p[c].alive /\ proc.p[c].pc = "changed"
    /\ proc.p[c].seen # proc.version \/ SenderDropped(proc)
    /\ proc' = [proc EXCEPT !.p[c].pc = "borrow",
                            !.p[c].state = IF proc.p[c].seen # proc.version THEN "Ok" ELSE "Err",
                            !.p[c].seen = proc.version]
    /\ UNCHANGED <<dioVars, last, timeVars, conn, svc>>

\* ret = self.exit_rx.borrow().clone(), the break on Err, the test of the loop
\* and the match on ret
Wait_borrow(c) ==
    /\ proc.pc = "run"
    /\ proc.p[c].alive /\ proc.p[c].pc = "borrow"
    /\ LET left == proc.p[c].state = "Err" \/ proc.value # None
       IN proc' = [proc EXCEPT !.p[c].ret = proc.value,
                               !.p[c].pc = IF left THEN "done" ELSE "changed",
                               !.p[c].out = IF left THEN Returned(proc.value)
                                            ELSE NotReturned]
    /\ UNCHANGED <<dioVars, last, timeVars, conn, svc>>

\* one Process over a fresh watch channel that holds None
InitProc ==
    /\ NoChain
    /\ conn = NoConn /\ svc = NoSvc
    /\ proc = [pc |-> "run", value |-> None, version |-> 0, sent |-> {},
               p |-> [c \in Clones |-> IF c = 1 THEN [NoClone EXCEPT !.alive = TRUE]
                                       ELSE NoClone]]

\* the steps of a wait_for_exit that is under way
WaitStep(c) == Wait_changed(c) \/ Wait_borrow(c)

NextProc ==
    \/ \E c, d \in Clones : Process_clone(c, d)
    \/ \E c \in Clones : Process_drop(c)
    \/ \E c \in Clones, exit_code \in ExitCodes : Process_terminate(c, exit_code)
    \/ \E c \in Clones : Wait_begin(c)
    \/ \E c \in Clones : Wait_changed(c)
    \/ \E c \in Clones : Wait_borrow(c)

SpecProc == InitProc /\ [][NextProc]_vars

\* the runtime polls every task that was woken
SpecProcLive == SpecProc /\ \A c \in Clones : WF_vars(WaitStep(c))

\* the clones whose wait_for_exit is under way
Waiting(c) == proc.p[c].alive /\ proc.p[c].pc \in {"changed", "borrow"}

\* C40: once terminate was called on any clone every wait_for_exit on every
\* clone, begun before or after, returns in the end; a call that returns gives
\* the exit code the channel holds at that time, which was passed to
\* terminate, and never ERR_PANIC; and no wait_for_exit returns before any
\* terminate was called
C40_ExitProtocol ==
    /\ [][ \A c \in Clones :
             (proc.pc = "run" /\ proc'.p[c].pc = "done" /\ proc.p[c].pc # "done") =>
                /\ ~proc'.p[c].out.panic
                /\ proc.sent # {}
                /\ proc'.p[c].out.code \in proc.sent
                /\ proc.value = <<proc'.p[c].out.code>> ]_vars
    /\ \A c \in Clones : (proc.pc = "run" /\ proc.sent # {} /\ Waiting(c)) ~> ~Waiting(c)
    /\ [](proc.pc = "run" =>
            \A c \in Clones : (proc.sent = {} /\ proc.p[c].alive) => proc.p[c].pc # "done")

\* C40 - witness: a wait_for_exit begun before any terminate has returned the
\* code of the second terminate while another clone returned the first
C40_Witness ==
    /\ proc.pc = "run"
    /\ \E c, d \in Clones :
          /\ c # d /\ proc.p[c].alive /\ proc.p[d].alive
          /\ proc.p[c].pc = "done" /\ proc.p[d].pc = "done"
          /\ proc.p[c].state = "Ok" /\ proc.p[c].seen > 0
          /\ proc.p[c].out.code # proc.p[d].out.code
          /\ proc.value = <<proc.p[c].out.code>>

====
